---- MODULE Spec2Model ----
(***************************************************************************)
(* WikiToGrok: the URL classification and transformation core              *)
(* (src/src/utils/url-transformer.ts), the settings store                  *)
(* (src/src/utils/storage.ts), the content script and the service worker.  *)
(*                                                                         *)
(* A JavaScript string is modelled as a sequence of code points, each a    *)
(* one-character TLA+ string; a code point outside ASCII is written        *)
(* "U+XXXX".  new URL(url) is modelled by the steps of the WHATWG basic    *)
(* URL parser that decide url.hostname and url.pathname.                   *)
(***************************************************************************)
EXTENDS Integers, Sequences, FiniteSets, TLC

VARIABLES
  src,                  \* the pieces the input string is written from
  url,                  \* the string handed to the exported function
  pc,                   \* "idle", or the exported function that returned last
  ret,                  \* the value that function returned
  calls,                \* the helpers transformToGrokipedia called, in order
  EXCLUDED_NAMESPACES,  \* the module-level array of url-transformer.ts
  args,                 \* the arguments handed to decodeArticleName and isLanguageEnabled
  sync,                 \* the items of chrome.storage.sync
  pending,              \* the storage change events not yet handled, per listener
  locals,               \* the locals of the storage function that ran last
  page,                 \* the Wikipedia page the content script runs in
  worker,               \* the service worker and the dynamic rules it installed
  tab                   \* the main-frame request a tab made last, and its outcome

vars == <<src, url, pc, ret, calls, EXCLUDED_NAMESPACES, args,
          sync, pending, locals, page, worker, tab>>

----------------------------------------------------------------------------
(* Strings                                                                 *)

LowerAlpha == <<"a","b","c","d","e","f","g","h","i","j","k","l","m",
                "n","o","p","q","r","s","t","u","v","w","x","y","z">>
UpperAlpha == <<"A","B","C","D","E","F","G","H","I","J","K","L","M",
                "N","O","P","Q","R","S","T","U","V","W","X","Y","Z">>
LowerSet == {LowerAlpha[i] : i \in 1..26}
UpperSet == {UpperAlpha[i] : i \in 1..26}
DigitSeq == <<"0","1","2","3","4","5","6","7","8","9">>
DigitSet == {DigitSeq[i] : i \in 1..10}

\* String.prototype.toLowerCase on one ASCII code point
ToLowerChar(c) ==
  IF c \in UpperSet THEN LowerAlpha[CHOOSE i \in 1..26 : UpperAlpha[i] = c] ELSE c

ToLower(s) == [i \in 1..Len(s) |-> ToLowerChar(s[i])]

Drop(s, n) == SubSeq(s, n + 1, Len(s))

\* String.prototype.startsWith / endsWith
StartsWith(s, p) == Len(s) >= Len(p) /\ SubSeq(s, 1, Len(p)) = p
EndsWith(s, p) == Len(s) >= Len(p) /\ SubSeq(s, Len(s) - Len(p) + 1, Len(s)) = p

MinOf(S) == CHOOSE x \in S : \A y \in S : x <= y
MaxOf(S) == CHOOSE x \in S : \A y \in S : x >= y

\* String.prototype.indexOf, 1-based; 0 when pat does not occur
IndexOf(s, pat) ==
  LET hits == {i \in 1..(Len(s) - Len(pat) + 1) : SubSeq(s, i, i + Len(pat) - 1) = pat}
  IN IF hits = {} THEN 0 ELSE MinOf(hits)

\* String.prototype.replace(pat, rep) with a string pattern: the first occurrence only
ReplaceFirst(s, pat, rep) ==
  LET i == IndexOf(s, pat)
  IN IF i = 0 THEN s
     ELSE SubSeq(s, 1, i - 1) \o rep \o Drop(s, i + Len(pat) - 1)

\* the first position of s holding a code point of D, Len(s) + 1 when there is none
FirstIn(s, D) == MinOf({i \in 1..Len(s) : s[i] \in D} \cup {Len(s) + 1})

\* the last position of s holding c, 0 when there is none
LastOf(s, c) == MaxOf({i \in 1..Len(s) : s[i] = c} \cup {0})

RECURSIVE Flatten(_)
Flatten(ss) == IF ss = <<>> THEN <<>> ELSE Head(ss) \o Flatten(Tail(ss))

\* s cut at every code point of D: k separators give k + 1 pieces
RECURSIVE Split(_, _)
Split(s, D) ==
  LET i == FirstIn(s, D)
  IN IF i > Len(s) THEN <<s>>
     ELSE <<SubSeq(s, 1, i - 1)>> \o Split(Drop(s, i), D)

RECURSIVE Join(_, _)
Join(ss, sep) ==
  IF ss = <<>> THEN <<>>
  ELSE IF Len(ss) = 1 THEN ss[1]
  ELSE ss[1] \o sep \o Join(Tail(ss), sep)

RECURSIVE ToNumber(_)
ToNumber(ds) ==
  IF ds = <<>> THEN 0
  ELSE 10 * ToNumber(SubSeq(ds, 1, Len(ds) - 1))
       + (CHOOSE i \in 1..10 : DigitSeq[i] = ds[Len(ds)]) - 1

----------------------------------------------------------------------------
(* new URL(url): the WHATWG basic URL parser, no base URL                  *)

C0ControlOrSpace == {" ", "\t", "\n", "\r"}
TabOrNewline == {"\t", "\n", "\r"}
SchemeChars == LowerSet \cup UpperSet \cup DigitSet \cup {"+", "-", "."}
\* the special schemes; file: URLs are not among the modelled inputs
SpecialSchemes == {<<"h","t","t","p">>, <<"h","t","t","p","s">>, <<"f","t","p">>, <<"w","s">>, <<"w","s","s">>}
\* the forbidden domain code points that the modelled alphabet can write
ForbiddenDomain == {" ", "#", "/", ":", "?", "@", "\\", "%"}
ForbiddenHost == ForbiddenDomain \ {"%"}

URLFailure == [failure |-> TRUE, hostname |-> <<>>, pathname |-> <<>>]

\* "remove any leading and trailing C0 control or space"
RECURSIVE StripLeading(_)
StripLeading(s) ==
  IF s # <<>> /\ Head(s) \in C0ControlOrSpace THEN StripLeading(Tail(s)) ELSE s
RECURSIVE StripTrailing(_)
StripTrailing(s) ==
  IF s # <<>> /\ s[Len(s)] \in C0ControlOrSpace
  THEN StripTrailing(SubSeq(s, 1, Len(s) - 1)) ELSE s

\* "remove all ASCII tab or newline"
RemoveTabNewline(s) == SelectSeq(s, LAMBDA c : c \notin TabOrNewline)

\* the escapes of the modelled alphabet that percent-decode to an ASCII code point
HostEscapes == {<<"2","E">>, <<"2","e">>, <<"4","5">>, <<"6","5">>}
EscapeValue(h) == IF h = <<"4","5">> THEN "E" ELSE IF h = <<"6","5">> THEN "e" ELSE "."

\* percent-decode of the host string (host parsing, step 4)
RECURSIVE PercentDecodeHost(_)
PercentDecodeHost(s) ==
  IF s = <<>> THEN <<>>
  ELSE IF Head(s) = "%" /\ Len(s) >= 3 /\ SubSeq(s, 2, 3) \in HostEscapes
       THEN <<EscapeValue(SubSeq(s, 2, 3))>> \o PercentDecodeHost(Drop(s, 3))
       ELSE <<Head(s)>> \o PercentDecodeHost(Tail(s))

\* host parsing: a domain for a special scheme (percent-decoded, lowercased by
\* domain-to-ASCII), an opaque host otherwise
ParseHost(text, special) ==
  IF special
  THEN LET domain == ToLower(PercentDecodeHost(text))
       IN IF domain = <<>> \/ \E i \in 1..Len(domain) : domain[i] \in ForbiddenDomain
          THEN [failure |-> TRUE, host |-> <<>>]
          ELSE [failure |-> FALSE, host |-> domain]
  ELSE IF \E i \in 1..Len(text) : text[i] \in ForbiddenHost
       THEN [failure |-> TRUE, host |-> <<>>]
       ELSE [failure |-> FALSE, host |-> text]

\* authority state, host state and port state: credentials end at the last "@",
\* the port follows the first ":" of what is left
ParseAuthority(a, special) ==
  LET at == LastOf(a, "@")
      hostport == Drop(a, at)
      colon == FirstIn(hostport, {":"})
      hostText == SubSeq(hostport, 1, colon - 1)
      portText == Drop(hostport, colon)
      badPort == \/ \E i \in 1..Len(portText) : portText[i] \notin DigitSet
                 \/ ToNumber(portText) > 65535
  IN IF hostText = <<>> /\ (special \/ at > 0 \/ colon <= Len(hostport))
     THEN [failure |-> TRUE, host |-> <<>>]
     ELSE IF badPort THEN [failure |-> TRUE, host |-> <<>>]
     ELSE ParseHost(hostText, special)

\* UTF-8 percent-encode of one code point with the path percent-encode set
PathEncodeChar(c) ==
  IF c = " " THEN <<"%","2","0">>
  ELSE IF c = "U+00E1" THEN <<"%","C","3","%","A","1">>
  ELSE IF c = "U+6771" THEN <<"%","E","6","%","9","D","%","B","1">>
  ELSE <<c>>

PathEncode(seg) == Flatten([i \in 1..Len(seg) |-> PathEncodeChar(seg[i])])

IsSingleDot(seg) == ToLower(seg) \in {<<".">>, <<"%","2","e">>}
IsDoubleDot(seg) == ToLower(seg) \in {<<".",".">>, <<".","%","2","e">>, <<"%","2","e",".">>, <<"%","2","e","%","2","e">>}

\* path state, one segment at a time: path is the URL's path so far, segs the
\* segments still to read; the last segment is the one no slash terminates
RECURSIVE PathState(_, _)
PathState(path, segs) ==
  IF segs = <<>> THEN path
  ELSE LET seg == Head(segs)
           last == Len(segs) = 1
           shortened == IF path = <<>> THEN path ELSE SubSeq(path, 1, Len(path) - 1)
       IN IF IsDoubleDot(seg)
          THEN PathState(IF last THEN Append(shortened, <<>>) ELSE shortened, Tail(segs))
          ELSE IF IsSingleDot(seg)
          THEN PathState(IF last THEN Append(path, <<>>) ELSE path, Tail(segs))
          ELSE PathState(Append(path, PathEncode(seg)), Tail(segs))

\* path start state and the pathname getter; tail is what follows the authority
ParsePath(tail, special) ==
  LET text == SubSeq(tail, 1, FirstIn(tail, {"?", "#"}) - 1)
      seps == IF special THEN {"/", "\\"} ELSE {"/"}
      body == IF text # <<>> /\ Head(text) \in seps THEN Tail(text) ELSE text
      path == PathState(<<>>, Split(body, seps))
  IN IF ~special /\ text = <<>> THEN <<>>
     ELSE <<"/">> \o Join(path, <<"/">>)

\* scheme state onwards, for a special scheme: any run of slashes and
\* backslashes leads to the authority
ParseSpecial(rest) ==
  LET start == MinOf({i \in 1..Len(rest) : rest[i] \notin {"/", "\\"}} \cup {Len(rest) + 1})
      r == Drop(rest, start - 1)
      authEnd == FirstIn(r, {"/", "\\", "?", "#"})
      auth == ParseAuthority(SubSeq(r, 1, authEnd - 1), TRUE)
  IN IF auth.failure THEN URLFailure
     ELSE [failure |-> FALSE, hostname |-> auth.host,
           pathname |-> ParsePath(Drop(r, authEnd - 1), TRUE)]

\* scheme state onwards, for any other scheme: "//" starts an authority, "/" a
\* path, anything else an opaque path
ParseNonSpecial(rest) ==
  IF StartsWith(rest, <<"/","/">>)
  THEN LET r == Drop(rest, 2)
           authEnd == FirstIn(r, {"/", "?", "#"})
           auth == ParseAuthority(SubSeq(r, 1, authEnd - 1), FALSE)
       IN IF auth.failure THEN URLFailure
          ELSE [failure |-> FALSE, hostname |-> auth.host,
                pathname |-> ParsePath(Drop(r, authEnd - 1), FALSE)]
  ELSE IF StartsWith(rest, <<"/">>)
  THEN [failure |-> FALSE, hostname |-> <<>>, pathname |-> ParsePath(rest, FALSE)]
  ELSE [failure |-> FALSE, hostname |-> <<>>,
        pathname |-> SubSeq(rest, 1, FirstIn(rest, {"?", "#"}) - 1)]

\* new URL(input): failure stands for the TypeError the constructor throws
ParseURL(input) ==
  LET s == RemoveTabNewline(StripTrailing(StripLeading(input)))
      colon == FirstIn(s, {":"})
      hasScheme == /\ colon <= Len(s)
                   /\ colon > 1
                   /\ s[1] \in LowerSet \cup UpperSet
                   /\ \A i \in 2..(colon - 1) : s[i] \in SchemeChars
  IN IF ~hasScheme THEN URLFailure
     ELSE IF ToLower(SubSeq(s, 1, colon - 1)) \in SpecialSchemes
     THEN ParseSpecial(Drop(s, colon))
     ELSE ParseNonSpecial(Drop(s, colon))

----------------------------------------------------------------------------
(* src/src/utils/url-transformer.ts                                        *)

\* the array literal EXCLUDED_NAMESPACES is initialised with
NamespaceLiteral == <<
  <<"S","p","e","c","i","a","l",":">>, <<"W","i","k","i","p","e","d","i","a",":">>, <<"T","a","l","k",":">>, <<"U","s","e","r",":">>, <<"U","s","e","r","_","t","a","l","k",":">>,
  <<"F","i","l","e",":">>, <<"F","i","l","e","_","t","a","l","k",":">>, <<"M","e","d","i","a","W","i","k","i",":">>, <<"M","e","d","i","a","W","i","k","i","_","t","a","l","k",":">>,
  <<"T","e","m","p","l","a","t","e",":">>, <<"T","e","m","p","l","a","t","e","_","t","a","l","k",":">>, <<"H","e","l","p",":">>, <<"H","e","l","p","_","t","a","l","k",":">>,
  <<"C","a","t","e","g","o","r","y",":">>, <<"C","a","t","e","g","o","r","y","_","t","a","l","k",":">>, <<"P","o","r","t","a","l",":">>, <<"P","o","r","t","a","l","_","t","a","l","k",":">>,
  <<"D","r","a","f","t",":">>, <<"D","r","a","f","t","_","t","a","l","k",":">>, <<"T","i","m","e","d","T","e","x","t",":">>, <<"M","o","d","u","l","e",":">>, <<"M","o","d","u","l","e","_","t","a","l","k",":">>,
  <<"G","a","d","g","e","t",":">>, <<"G","a","d","g","e","t","_","t","a","l","k",":">>, <<"G","a","d","g","e","t","_","d","e","f","i","n","i","t","i","o","n",":">>, <<"G","a","d","g","e","t","_","d","e","f","i","n","i","t","i","o","n","_","t","a","l","k",":">> >>

GROKIPEDIA_BASE_URL == <<"h","t","t","p","s",":","/","/","g","r","o","k","i","p","e","d","i","a",".","c","o","m">>

WikipediaSuffix == <<".","w","i","k","i","p","e","d","i","a",".","o","r","g">>
WikiMarker == <<"/","w","i","k","i","/">>

\* string | null
Null == [isNull |-> TRUE, value |-> <<>>]
Str(s) == [isNull |-> FALSE, value |-> s]
\* !x for x of type string | null
Falsy(x) == x.isNull \/ x.value = <<>>

\* faulty variants of isArticlePage: the main page treated as a special page;
\* the loop stopping one entry short; includes() for endsWith(); a comparison
\* that ignores letter case
isArticlePage_MainPageExcluded(u) ==
  LET urlObj == ParseURL(u)
      articlePath == ReplaceFirst(urlObj.pathname, WikiMarker, <<>>)
  IN IF urlObj.failure THEN FALSE
     ELSE IF ~EndsWith(urlObj.hostname, WikipediaSuffix) THEN FALSE
     ELSE IF ~StartsWith(urlObj.pathname, WikiMarker) THEN FALSE
     ELSE IF \E i \in 1..Len(EXCLUDED_NAMESPACES) :
                StartsWith(articlePath, EXCLUDED_NAMESPACES[i]) THEN FALSE
     ELSE IF articlePath = <<>> \/ articlePath = <<"M","a","i","n","_","P","a","g","e">> THEN FALSE
     ELSE TRUE

isArticlePage_OneShort(u) ==
  LET urlObj == ParseURL(u)
      articlePath == ReplaceFirst(urlObj.pathname, WikiMarker, <<>>)
  IN IF urlObj.failure THEN FALSE
     ELSE IF ~EndsWith(urlObj.hostname, WikipediaSuffix) THEN FALSE
     ELSE IF ~StartsWith(urlObj.pathname, WikiMarker) THEN FALSE
     ELSE IF \E i \in 1..(Len(EXCLUDED_NAMESPACES) - 1) :
                StartsWith(articlePath, EXCLUDED_NAMESPACES[i]) THEN FALSE
     ELSE TRUE

isArticlePage_Includes(u) ==
  LET urlObj == ParseURL(u)
      articlePath == ReplaceFirst(urlObj.pathname, WikiMarker, <<>>)
  IN IF urlObj.failure THEN FALSE
     ELSE IF IndexOf(urlObj.hostname, WikipediaSuffix) = 0 THEN FALSE
     ELSE IF ~StartsWith(urlObj.pathname, WikiMarker) THEN FALSE
     ELSE IF \E i \in 1..Len(EXCLUDED_NAMESPACES) :
                StartsWith(articlePath, EXCLUDED_NAMESPACES[i]) THEN FALSE
     ELSE TRUE

isArticlePage_IgnoreCase(u) ==
  LET urlObj == ParseURL(u)
      articlePath == ReplaceFirst(urlObj.pathname, WikiMarker, <<>>)
  IN IF urlObj.failure THEN FALSE
     ELSE IF ~EndsWith(urlObj.hostname, WikipediaSuffix) THEN FALSE
     ELSE IF ~StartsWith(urlObj.pathname, WikiMarker) THEN FALSE
     ELSE IF \E i \in 1..Len(EXCLUDED_NAMESPACES) :
                StartsWith(ToLower(articlePath), ToLower(EXCLUDED_NAMESPACES[i])) THEN FALSE
     ELSE TRUE

isArticlePage(u) ==
  LET urlObj == ParseURL(u)
      articlePath == ReplaceFirst(urlObj.pathname, WikiMarker, <<>>)
  IN IF urlObj.failure THEN FALSE
     ELSE IF ~EndsWith(urlObj.hostname, WikipediaSuffix) THEN FALSE
     ELSE IF ~StartsWith(urlObj.pathname, WikiMarker) THEN FALSE
     ELSE IF \E i \in 1..Len(EXCLUDED_NAMESPACES) :
                StartsWith(articlePath, EXCLUDED_NAMESPACES[i]) THEN FALSE
     ELSE IF articlePath = <<>> \/ articlePath = <<"M","a","i","n","_","P","a","g","e">> THEN TRUE
     ELSE TRUE

\* faulty variant: /^([a-z]{2,})\.wikipedia\.org$/, no upper bound on the length
MatchLanguage_NoUpperBound(hostname) ==
  LET n == Len(hostname) - Len(WikipediaSuffix)
  IN IF /\ n >= 2
        /\ \A i \in 1..n : hostname[i] \in LowerSet
        /\ Drop(hostname, n) = WikipediaSuffix
     THEN SubSeq(hostname, 1, n)
     ELSE <<>>

\* hostname.match(/^([a-z]{2,3})\.wikipedia\.org$/): the captured group, <<>> for no match
MatchLanguage(hostname) ==
  LET n == Len(hostname) - Len(WikipediaSuffix)
  IN IF /\ n \in {2, 3}
        /\ \A i \in 1..n : hostname[i] \in LowerSet
        /\ Drop(hostname, n) = WikipediaSuffix
     THEN SubSeq(hostname, 1, n)
     ELSE <<>>

\* faulty variant of extractLanguage: no try/catch, the TypeError of new URL()
\* reaches the caller
extractLanguage_Uncaught(u) ==
  LET urlObj == ParseURL(u)
      hostname == urlObj.hostname
  IN IF urlObj.failure THEN [raised |-> "TypeError"]
     ELSE IF MatchLanguage(hostname) # <<>> THEN Str(MatchLanguage(hostname))
     ELSE IF hostname = <<"s","i","m","p","l","e">> \o WikipediaSuffix THEN Str(<<"s","i","m","p","l","e">>)
     ELSE Null

extractLanguage(u) ==
  LET urlObj == ParseURL(u)
      hostname == urlObj.hostname
  IN IF urlObj.failure THEN Null
     ELSE IF MatchLanguage(hostname) # <<>> THEN Str(MatchLanguage(hostname))
     ELSE IF hostname = <<"s","i","m","p","l","e">> \o WikipediaSuffix THEN Str(<<"s","i","m","p","l","e">>)
     ELSE Null

\* faulty variants of extractArticleName: the name percent-decoded; the name
\* cut out of the whole input string; '' returned in place of null
RECURSIVE DecodePlus(_)
DecodePlus(s) ==
  IF s = <<>> THEN <<>>
  ELSE IF StartsWith(s, <<"%","2","B">>) THEN <<"+">> \o DecodePlus(Drop(s, 3))
  ELSE <<Head(s)>> \o DecodePlus(Tail(s))

extractArticleName_Decoded(u) ==
  LET urlObj == ParseURL(u)
      articlePath == ReplaceFirst(urlObj.pathname, WikiMarker, <<>>)
  IN IF urlObj.failure THEN Null
     ELSE IF ~StartsWith(urlObj.pathname, WikiMarker) THEN Null
     ELSE IF articlePath = <<>> THEN Null
     ELSE Str(DecodePlus(articlePath))

extractArticleName_FromHref(u) ==
  LET urlObj == ParseURL(u)
      articlePath == Drop(u, IndexOf(u, WikiMarker) + Len(WikiMarker) - 1)
  IN IF urlObj.failure THEN Null
     ELSE IF ~StartsWith(urlObj.pathname, WikiMarker) THEN Null
     ELSE IF IndexOf(u, WikiMarker) = 0 \/ articlePath = <<>> THEN Null
     ELSE Str(articlePath)

extractArticleName_EmptyString(u) ==
  LET urlObj == ParseURL(u)
      articlePath == ReplaceFirst(urlObj.pathname, WikiMarker, <<>>)
  IN IF urlObj.failure THEN Null
     ELSE IF ~StartsWith(urlObj.pathname, WikiMarker) THEN Null
     ELSE Str(articlePath)

extractArticleName(u) ==
  LET urlObj == ParseURL(u)
      articlePath == ReplaceFirst(urlObj.pathname, WikiMarker, <<>>)
  IN IF urlObj.failure THEN Null
     ELSE IF ~StartsWith(urlObj.pathname, WikiMarker) THEN Null
     ELSE IF articlePath = <<>> THEN Null
     ELSE Str(articlePath)

\* the TransformResult object literals: an optional field that is not written is absent
Failed(error) == [success |-> FALSE, error |-> error]
Succeeded(grokipediaUrl, articleName, language) ==
  [success |-> TRUE, grokipediaUrl |-> grokipediaUrl,
   articleName |-> articleName, language |-> language]

\* faulty variants of transformToGrokipedia: the article name extracted before
\* the language; a failure that carries the language already extracted
transformToGrokipedia_NameFirst(wikipediaUrl) ==
  LET language == extractLanguage(wikipediaUrl)
      articleName == extractArticleName(wikipediaUrl)
  IN IF ~isArticlePage(wikipediaUrl)
     THEN [result |-> Failed("Not a Wikipedia article page"),
           calls |-> <<"isArticlePage">>]
     ELSE IF Falsy(articleName)
     THEN [result |-> Failed("Could not extract article name from URL"),
           calls |-> <<"isArticlePage", "extractArticleName">>]
     ELSE IF Falsy(language)
     THEN [result |-> Failed("Could not extract language from URL"),
           calls |-> <<"isArticlePage", "extractArticleName", "extractLanguage">>]
     ELSE [result |-> Succeeded(GROKIPEDIA_BASE_URL \o <<"/","p","a","g","e","/">> \o articleName.value,
                                articleName.value, language.value),
           calls |-> <<"isArticlePage", "extractArticleName", "extractLanguage">>]

transformToGrokipedia_Partial(wikipediaUrl) ==
  LET language == extractLanguage(wikipediaUrl)
      articleName == extractArticleName(wikipediaUrl)
  IN IF ~isArticlePage(wikipediaUrl)
     THEN [result |-> Failed("Not a Wikipedia article page"),
           calls |-> <<"isArticlePage">>]
     ELSE IF Falsy(language)
     THEN [result |-> Failed("Could not extract language from URL"),
           calls |-> <<"isArticlePage", "extractLanguage">>]
     ELSE IF Falsy(articleName)
     THEN [result |-> [success |-> FALSE, language |-> language.value,
                       error |-> "Could not extract article name from URL"],
           calls |-> <<"isArticlePage", "extractLanguage", "extractArticleName">>]
     ELSE [result |-> Succeeded(GROKIPEDIA_BASE_URL \o <<"/","p","a","g","e","/">> \o articleName.value,
                                articleName.value, language.value),
           calls |-> <<"isArticlePage", "extractLanguage", "extractArticleName">>]

\* result: the TransformResult returned; calls: the helpers called, in order
transformToGrokipedia(wikipediaUrl) ==
  LET language == extractLanguage(wikipediaUrl)
      articleName == extractArticleName(wikipediaUrl)
  IN IF ~isArticlePage(wikipediaUrl)
     THEN [result |-> Failed("Not a Wikipedia article page"),
           calls |-> <<"isArticlePage">>]
     ELSE IF Falsy(language)
     THEN [result |-> Failed("Could not extract language from URL"),
           calls |-> <<"isArticlePage", "extractLanguage">>]
     ELSE IF Falsy(articleName)
     THEN [result |-> Failed("Could not extract article name from URL"),
           calls |-> <<"isArticlePage", "extractLanguage", "extractArticleName">>]
     ELSE [result |-> Succeeded(GROKIPEDIA_BASE_URL \o <<"/","p","a","g","e","/">> \o articleName.value,
                                articleName.value, language.value),
           calls |-> <<"isArticlePage", "extractLanguage", "extractArticleName">>]

\* the code points U+0020 to U+007E, in order (U+0060 written by its number)
PrintableAscii ==
  <<" ","!","\"","#","$","%","&","'","(",")","*","+",",","-",".","/","0","1","2","3","4","5","6","7","8","9",":",";","<","=",">","?","@","A","B","C","D","E","F","G","H","I","J","K","L","M","N","O","P","Q","R","S","T","U","V","W","X","Y","Z","[","\\","]","^","_">>
  \o <<"U+0060">> \o <<"a","b","c","d","e","f","g","h","i","j","k","l","m","n","o","p","q","r","s","t","u","v","w","x","y","z","{","|","}","~">>

HexUpper == <<"0","1","2","3","4","5","6","7","8","9","A","B","C","D","E","F">>
HexLower == <<"0","1","2","3","4","5","6","7","8","9","a","b","c","d","e","f">>
IsHexDigit(c) == \E i \in 1..Len(HexUpper) : HexUpper[i] = c \/ HexLower[i] = c
HexValue(c) == (CHOOSE i \in 1..Len(HexUpper) : HexUpper[i] = c \/ HexLower[i] = c) - 1

\* v in hexadecimal, in at least w digits
RECURSIVE HexText(_, _)
HexText(v, w) ==
  IF v = 0 /\ w = 0 THEN ""
  ELSE HexText(v \div 16, IF w = 0 THEN 0 ELSE w - 1) \o HexUpper[(v % 16) + 1]

\* the code point v as the model writes it
CodePoint(v) ==
  IF v >= 32 /\ v <= 126 THEN PrintableAscii[v - 31]
  ELSE IF v = 9 THEN "\t"
  ELSE IF v = 10 THEN "\n"
  ELSE "U+" \o HexText(v, 4)

\* s holds "%" and two hexadecimal digits at position k
IsEscape(s, k) ==
  /\ k + 2 <= Len(s)
  /\ s[k] = "%"
  /\ IsHexDigit(s[k + 1])
  /\ IsHexDigit(s[k + 2])

\* the octet the escape at position k stands for
Octet(s, k) == 16 * HexValue(s[k + 1]) + HexValue(s[k + 2])

\* the number of leading 1 bits of the octet b
LeadingOnes(b) ==
  IF b < 128 THEN 0 ELSE IF b < 192 THEN 1 ELSE IF b < 224 THEN 2
  ELSE IF b < 240 THEN 3 ELSE IF b < 248 THEN 4 ELSE 5

\* the value the octets encode in UTF-8, read without any check
RECURSIVE Utf8Value(_, _)
Utf8Value(octets, acc) ==
  IF octets = <<>> THEN acc
  ELSE Utf8Value(Tail(octets), 64 * acc + (Head(octets) % 64))

\* the octets are the UTF-8 encoding of a code point: continuation octets,
\* shortest form, no surrogate, at most U+10FFFF
IsUtf8(octets) ==
  LET n == Len(octets)
      lead == octets[1] % (IF n = 2 THEN 32 ELSE IF n = 3 THEN 16 ELSE 8)
      v == Utf8Value(Tail(octets), lead)
  IN /\ \A j \in 2..n : octets[j] >= 128 /\ octets[j] < 192
     /\ v >= (IF n = 2 THEN 128 ELSE IF n = 3 THEN 2048 ELSE 65536)
     /\ v <= 1114111
     /\ ~(v >= 55296 /\ v <= 57343)

URIError == [threw |-> TRUE, value |-> <<>>]

\* decodeURIComponent (ECMAScript Decode with an empty reserved set): threw is
\* TRUE when it throws a URIError, value is the decoded string otherwise
RECURSIVE decodeURIComponent(_)
decodeURIComponent(s) ==
  IF s = <<>> THEN [threw |-> FALSE, value |-> <<>>]
  ELSE IF Head(s) # "%"
  THEN LET rest == decodeURIComponent(Tail(s))
       IN IF rest.threw THEN URIError
          ELSE [threw |-> FALSE, value |-> <<Head(s)>> \o rest.value]
  ELSE IF ~IsEscape(s, 1) THEN URIError
  ELSE LET b == Octet(s, 1)
           n == LeadingOnes(b)
       IN IF n = 0
          THEN LET rest == decodeURIComponent(Drop(s, 3))
               IN IF rest.threw THEN URIError
                  ELSE [threw |-> FALSE, value |-> <<CodePoint(b)>> \o rest.value]
          ELSE IF n = 1 \/ n > 4 THEN URIError
          ELSE IF \E j \in 2..n : ~IsEscape(s, 3 * j - 2) THEN URIError
          ELSE LET octets == [j \in 1..n |-> Octet(s, 3 * j - 2)]
                   lead == b % (IF n = 2 THEN 32 ELSE IF n = 3 THEN 16 ELSE 8)
                   rest == decodeURIComponent(Drop(s, 3 * n))
               IN IF ~IsUtf8(octets) \/ rest.threw THEN URIError
                  ELSE [threw |-> FALSE,
                        value |-> <<CodePoint(Utf8Value(Tail(octets), lead))>> \o rest.value]

\* String.prototype.replace(/_/g, ' ')
UnderscoresToSpaces(s) == [i \in 1..Len(s) |-> IF s[i] = "_" THEN " " ELSE s[i]]

\* faulty variant of decodeArticleName: the underscores replaced before the decoding
decodeArticleName_ReplaceBeforeDecode(articleName) ==
  LET decoded == decodeURIComponent(UnderscoresToSpaces(articleName))
  IN IF decoded.threw THEN UnderscoresToSpaces(articleName)
     ELSE decoded.value

decodeArticleName(articleName) ==
  LET decoded == decodeURIComponent(articleName)
  IN IF decoded.threw THEN UnderscoresToSpaces(articleName)
     ELSE UnderscoresToSpaces(decoded.value)

\* faulty variant of isLanguageEnabled: the comparison ignores letter case
isLanguageEnabled_IgnoreCase(language, enabledLanguages) ==
  IF Len(enabledLanguages) = 0 THEN TRUE
  ELSE \E i \in 1..Len(enabledLanguages) :
         ToLower(enabledLanguages[i]) = ToLower(language)

isLanguageEnabled(language, enabledLanguages) ==
  IF Len(enabledLanguages) = 0 THEN TRUE
  ELSE \E i \in 1..Len(enabledLanguages) : enabledLanguages[i] = language

----------------------------------------------------------------------------
(* The settings (type UserSettings) and src/src/utils/storage.ts           *)

\* an object is a function from its property names; {} has none
EmptyObject == [f \in {} |-> FALSE]

\* the object spread { ...a, ...b }
Spread(a, b) ==
  [f \in DOMAIN a \cup DOMAIN b |-> IF f \in DOMAIN b THEN b[f] ELSE a[f]]

SettingsFields ==
  {"autoRedirect", "useNotifications", "redirectDelay", "enabledLanguages", "enabled"}

DEFAULT_SETTINGS ==
  [autoRedirect |-> FALSE,
   useNotifications |-> FALSE,
   redirectDelay |-> 0,
   enabledLanguages |-> <<<<"e","n">>>>,
   enabled |-> TRUE]

STORAGE_KEY == "userSettings"

\* result[STORAGE_KEY] of chrome.storage.sync.get(STORAGE_KEY), as the spread
\* sees it: nothing to copy when the key is not stored
StoredSettings(area) ==
  IF STORAGE_KEY \in DOMAIN area THEN area[STORAGE_KEY] ELSE EmptyObject

\* faulty variant of getSettings: the stored object returned as it is
getSettings_NoMerge(area, readFails) ==
  IF readFails THEN DEFAULT_SETTINGS
  ELSE IF STORAGE_KEY \in DOMAIN area THEN area[STORAGE_KEY]
  ELSE DEFAULT_SETTINGS

\* getSettings on the sync area `area`; readFails: chrome.storage.sync.get rejects
getSettings(area, readFails) ==
  IF readFails THEN DEFAULT_SETTINGS
  ELSE Spread(DEFAULT_SETTINGS, StoredSettings(area))

\* faulty variant of saveSettings: the partial settings written over the defaults
saveSettings_OverDefaults(area, settings, readFails) ==
  LET current == getSettings(area, readFails)
      updated == Spread(DEFAULT_SETTINGS, settings)
  IN [current |-> current, updated |-> updated]

\* saveSettings up to the write: the locals current and updated
saveSettings(area, settings, readFails) ==
  LET current == getSettings(area, readFails)
      updated == Spread(current, settings)
  IN [current |-> current, updated |-> updated]

\* chrome.storage.sync.set({ [STORAGE_KEY]: value })
SyncSet(area, value) == Spread(area, [k \in {STORAGE_KEY} |-> value])


\* a property of a StorageChange, nothing to spread when it is undefined
ValueOf(change, property) ==
  IF property \in DOMAIN change THEN change[property] ELSE EmptyObject

\* the settings onSettingsChange hands to its callback
NewSettings(change) == Spread(DEFAULT_SETTINGS, ValueOf(change, "newValue"))

\* faulty variant of listener: the area of the change not looked at
listener_AnyArea(event) ==
  IF STORAGE_KEY \notin DOMAIN event.changes THEN [invoked |-> FALSE]
  ELSE [invoked |-> TRUE,
        newSettings |-> NewSettings(event.changes[STORAGE_KEY]),
        oldSettings |-> Spread(DEFAULT_SETTINGS,
                               ValueOf(event.changes[STORAGE_KEY], "oldValue"))]

\* the listener onSettingsChange registers, on one chrome.storage.onChanged
\* event: whether it invokes the callback, and with which arguments
listener(event) ==
  IF event.areaName # "sync" THEN [invoked |-> FALSE]
  ELSE IF STORAGE_KEY \notin DOMAIN event.changes THEN [invoked |-> FALSE]
  ELSE [invoked |-> TRUE,
        newSettings |-> NewSettings(event.changes[STORAGE_KEY]),
        oldSettings |-> Spread(DEFAULT_SETTINGS,
                               ValueOf(event.changes[STORAGE_KEY], "oldValue"))]

\* Array.prototype.includes, and filter(l => l !== language)
Includes(list, entry) == \E i \in DOMAIN list : list[i] = entry

Without(list, language) ==
  LET Differs(l) == l # language
  IN SelectSeq(list, Differs)

\* faulty variant of toggleSetting: the value read is stored again
toggleSetting_SameValue(area, key, readFails) ==
  LET settings == getSettings(area, readFails)
      newValue == settings[key]
  IN [saves |-> TRUE, save |-> [k \in {key} |-> newValue],
      reported |-> settings[key], newValue |-> newValue]

\* toggleSetting up to its saveSettings call: the value getSettings reported,
\* the value it returns and the partial settings it saves
toggleSetting(area, key, readFails) ==
  LET settings == getSettings(area, readFails)
      newValue == ~settings[key]
  IN [saves |-> TRUE, save |-> [k \in {key} |-> newValue],
      reported |-> settings[key], newValue |-> newValue]

\* faulty variant of addLanguage: the language appended without looking
addLanguage_Always(area, language, readFails) ==
  LET settings == getSettings(area, readFails)
  IN [saves |-> TRUE,
      save |-> [enabledLanguages |-> Append(settings.enabledLanguages, language)]]

\* addLanguage up to its saveSettings call: whether it saves, and what
addLanguage(area, language, readFails) ==
  LET settings == getSettings(area, readFails)
  IN IF ~Includes(settings.enabledLanguages, language)
     THEN [saves |-> TRUE,
           save |-> [enabledLanguages |-> Append(settings.enabledLanguages, language)]]
     ELSE [saves |-> FALSE, save |-> EmptyObject]

\* faulty variant of removeLanguage: the first occurrence only
removeLanguage_FirstOnly(area, language, readFails) ==
  LET list == getSettings(area, readFails).enabledLanguages
      at == {i \in DOMAIN list : list[i] = language}
      first == IF at = {} THEN 0 ELSE CHOOSE i \in at : \A j \in at : i <= j
  IN [saves |-> TRUE,
      save |-> [enabledLanguages |->
                  IF first = 0 THEN list
                  ELSE SubSeq(list, 1, first - 1) \o SubSeq(list, first + 1, Len(list))]]

\* removeLanguage up to its saveSettings call
removeLanguage(area, language, readFails) ==
  LET settings == getSettings(area, readFails)
  IN [saves |-> TRUE,
      save |-> [enabledLanguages |-> Without(settings.enabledLanguages, language)]]

\* faulty variant of enableAllLanguages: every known language listed
enableAllLanguages_ListAll ==
  [saves |-> TRUE, save |-> [enabledLanguages |-> <<<<"e","n">>, <<"f","r">>>>]]

\* enableAllLanguages up to its saveSettings call
enableAllLanguages ==
  [saves |-> TRUE, save |-> [enabledLanguages |-> <<>>]]

----------------------------------------------------------------------------
(* The content script: src/content/content-script.ts                       *)

\* !o.f of an object that may lack the property f
Truthy(o, f) == f \in DOMAIN o /\ o[f] = TRUE

\* o.redirectDelay > 0, false for a missing property
HasDelay(o) == "redirectDelay" \in DOMAIN o /\ o.redirectDelay > 0

\* what a handler of the content script decides to do
DoNothing == [kind |-> "nothing"]
DoRedirect(target, delayed) == [kind |-> "redirect", url |-> target, delayed |-> delayed]
DoNotify(articleName, target) ==
  [kind |-> "notification", title |-> "WikiToGrok", articleName |-> articleName,
   url |-> target]
DoBanner(articleName, target) ==
  [kind |-> "banner", articleName |-> articleName, url |-> target]
DoRemoveBanner == [kind |-> "removeBanner"]

\* performRedirect(url, delay): a timer for a positive delay, the assignment
\* to window.location.href otherwise
performRedirect(target, settings) == DoRedirect(target, HasDelay(settings))

\* the content script's getSettings: the answer of the service worker to
\* GET_SETTINGS, DEFAULT_SETTINGS when the message fails
ContentGetSettings(area, messageFails, readFails) ==
  IF messageFails THEN DEFAULT_SETTINGS ELSE getSettings(area, readFails)

\* the branch initialize ends in on a page it acts on
respond(result, articleName, settings) ==
  IF settings.autoRedirect THEN performRedirect(result.grokipediaUrl, settings)
  ELSE IF settings.useNotifications THEN DoNotify(articleName, result.grokipediaUrl)
  ELSE DoBanner(articleName, result.grokipediaUrl)

\* faulty variant of respond: the notification preferred to the redirect
respond_NotificationFirst(result, articleName, settings) ==
  IF settings.useNotifications THEN DoNotify(articleName, result.grokipediaUrl)
  ELSE IF settings.autoRedirect THEN performRedirect(result.grokipediaUrl, settings)
  ELSE DoBanner(articleName, result.grokipediaUrl)

\* faulty variant of initializeWith
initializeWith_NotificationFirst(isArticle, result, settings) ==
  IF ~isArticle THEN DoNothing
  ELSE IF \/ ~result.success
          \/ result.grokipediaUrl = <<>>
          \/ result.articleName = <<>>
          \/ result.language = <<>> THEN DoNothing
  ELSE IF ~settings.enabled THEN DoNothing
  ELSE IF ~isLanguageEnabled(result.language, settings.enabledLanguages) THEN DoNothing
  ELSE respond_NotificationFirst(result, decodeArticleName(result.articleName), settings)

\* initialize, from what isArticlePage and transformToGrokipedia returned and
\* the settings it obtained: the one thing it does
initializeWith(isArticle, result, settings) ==
  IF ~isArticle THEN DoNothing
  ELSE IF \/ ~result.success
          \/ result.grokipediaUrl = <<>>
          \/ result.articleName = <<>>
          \/ result.language = <<>> THEN DoNothing
  ELSE IF ~settings.enabled THEN DoNothing
  ELSE IF ~isLanguageEnabled(result.language, settings.enabledLanguages) THEN DoNothing
  ELSE respond(result, decodeArticleName(result.articleName), settings)

\* faulty variant of initialize: the notification preferred to the redirect
initialize_NotificationFirst(currentUrl, settings) ==
  initializeWith_NotificationFirst(isArticlePage(currentUrl),
                                   transformToGrokipedia(currentUrl).result, settings)

initialize(currentUrl, settings) ==
  initializeWith(isArticlePage(currentUrl), transformToGrokipedia(currentUrl).result,
                 settings)

\* the listener, from the change and what transformToGrokipedia returns
onChangedWith(change, result) ==
  IF ~Truthy(change.newValue, "enabled") THEN DoRemoveBanner
  ELSE IF /\ Truthy(change.newValue, "autoRedirect")
          /\ ~("oldValue" \in DOMAIN change /\ Truthy(change.oldValue, "autoRedirect"))
       THEN IF result.success /\ result.grokipediaUrl # <<>>
            THEN performRedirect(result.grokipediaUrl, change.newValue)
            ELSE DoNothing
  ELSE DoNothing

\* the chrome.storage.onChanged listener of the content script, for a change
\* of userSettings in the sync area
onChanged(currentUrl, event) ==
  IF event.areaName = "sync" /\ "userSettings" \in DOMAIN event.changes
  THEN onChangedWith(event.changes.userSettings, transformToGrokipedia(currentUrl).result)
  ELSE DoNothing

\* the page after the content script has done `effect`
Perform(p, effect) ==
  IF effect.kind = "redirect"
  THEN IF effect.delayed
       THEN [p EXCEPT !.timers = Append(p.timers, effect.url)]
       ELSE [p EXCEPT !.location = effect.url, !.open = FALSE]
  ELSE IF effect.kind = "notification"
  THEN [p EXCEPT !.notifications = Append(p.notifications, effect)]
  ELSE IF effect.kind = "banner"
  THEN [p EXCEPT !.banner = {effect}]
  ELSE IF effect.kind = "removeBanner"
  THEN [p EXCEPT !.banner = {}]
  ELSE p

----------------------------------------------------------------------------
(* src/src/background/service-worker.ts                                    *)

REDIRECT_RULE_ID == 1
EXCLUSION_RULE_START_ID == 2

\* the service worker's own EXCLUDED_NAMESPACES
EXCLUDED_NAMESPACES_ServiceWorker == <<
  <<"S","p","e","c","i","a","l",":">>, <<"W","i","k","i","p","e","d","i","a",":">>, <<"T","a","l","k",":">>, <<"U","s","e","r",":">>, <<"U","s","e","r","_","t","a","l","k",":">>,
  <<"F","i","l","e",":">>, <<"F","i","l","e","_","t","a","l","k",":">>, <<"T","e","m","p","l","a","t","e",":">>, <<"T","e","m","p","l","a","t","e","_","t","a","l","k",":">>,
  <<"H","e","l","p",":">>, <<"H","e","l","p","_","t","a","l","k",":">>, <<"C","a","t","e","g","o","r","y",":">>, <<"C","a","t","e","g","o","r","y","_","t","a","l","k",":">>,
  <<"P","o","r","t","a","l",":">>, <<"P","o","r","t","a","l","_","t","a","l","k",":">>, <<"D","r","a","f","t",":">>, <<"D","r","a","f","t","_","t","a","l","k",":">>,
  <<"M","o","d","u","l","e",":">>, <<"M","o","d","u","l","e","_","t","a","l","k",":">> >>

\* the urlFilter `*://*.wikipedia.org/wiki/${namespace}*`, as the literal
\* pieces between its wildcards
UrlFilter(namespace) == <<<<>>, <<":","/","/">>, <<".","w","i","k","i","p","e","d","i","a",".","o","r","g","/","w","i","k","i","/">> \o namespace, <<>>>>

\* regexFilter '^https://[a-z]{2,3}\\.wikipedia\\.org/wiki/([^?#]+)$': the
\* literal before the language, the bounds of [a-z]{m,n}, the literal after it
RegexFilter ==
  [scheme |-> <<"h","t","t","p","s",":","/","/">>, least |-> 2, most |-> 3, site |-> <<".","w","i","k","i","p","e","d","i","a",".","o","r","g","/","w","i","k","i","/">>]

\* regexSubstitution 'https://grokipedia.com/page/\\1'
RegexSubstitution(group1) == <<"h","t","t","p","s",":","/","/","g","r","o","k","i","p","e","d","i","a",".","c","o","m","/","p","a","g","e","/">> \o group1

createRedirectRules ==
  {[id |-> REDIRECT_RULE_ID, priority |-> 1, type |-> "redirect", urlFilter |-> <<>>]}
    \cup {[id |-> EXCLUSION_RULE_START_ID + (index - 1), priority |-> 2,
           type |-> "allow",
           urlFilter |-> UrlFilter(EXCLUDED_NAMESPACES_ServiceWorker[index])] :
            index \in DOMAIN EXCLUDED_NAMESPACES_ServiceWorker}

\* faulty variant of getAllRuleIds: the identifier of the redirect rule left out
getAllRuleIds_ExclusionsOnly ==
  {EXCLUSION_RULE_START_ID + (i - 1) : i \in DOMAIN EXCLUDED_NAMESPACES_ServiceWorker}

getAllRuleIds ==
  {REDIRECT_RULE_ID}
    \cup {EXCLUSION_RULE_START_ID + (i - 1) : i \in DOMAIN EXCLUDED_NAMESPACES_ServiceWorker}

\* the dynamic rules after updateRedirectRules(settings); a rejected
\* updateDynamicRules changes nothing and the error is logged
updateRedirectRules(rules, settings, updateFails) ==
  LET kept == {r \in rules : r.id \notin getAllRuleIds}
  IN IF updateFails THEN rules
     ELSE IF settings.enabled /\ settings.autoRedirect THEN kept \cup createRedirectRules
     ELSE kept

----------------------------------------------------------------------------
(* chrome.declarativeNetRequest: how the browser applies the dynamic rules *)

\* the least index from k on at which piece occurs in text, 0 if none
IndexOfFrom(text, piece, k) ==
  LET at == {i \in k..(Len(text) - Len(piece) + 1) :
               SubSeq(text, i, i + Len(piece) - 1) = piece}
  IN IF at = {} THEN 0 ELSE CHOOSE i \in at : \A j \in at : i <= j

\* a urlFilter without anchors: its pieces occur in the URL, in order
RECURSIVE PiecesOccur(_, _, _)
PiecesOccur(text, pieces, k) ==
  IF pieces = <<>> THEN TRUE
  ELSE LET i == IndexOfFrom(text, Head(pieces), k)
       IN i # 0 /\ PiecesOccur(text, Tail(pieces), i + Len(Head(pieces)))

\* isUrlFilterCaseSensitive is not set by the rules: the browser's default
\* decides whether letter case counts
Folded(text, caseSensitive) == IF caseSensitive THEN text ELSE ToLower(text)

UrlFilterMatches(pieces, requestUrl, caseSensitive) ==
  PiecesOccur(Folded(requestUrl, caseSensitive),
              [i \in DOMAIN pieces |-> Folded(pieces[i], caseSensitive)], 1)

\* the lengths of the language for which RegexFilter matches the whole URL
RegexLanguageLengths(requestUrl, caseSensitive) ==
  LET text == Folded(requestUrl, caseSensitive)
      from == Len(RegexFilter.scheme)
  IN {n \in RegexFilter.least..RegexFilter.most :
        /\ StartsWith(text, RegexFilter.scheme)
        /\ Len(text) > from + n + Len(RegexFilter.site)
        /\ \A i \in (from + 1)..(from + n) : text[i] \in LowerSet
        /\ SubSeq(text, from + n + 1, from + n + Len(RegexFilter.site)) = RegexFilter.site
        /\ \A i \in (from + n + Len(RegexFilter.site) + 1)..Len(text) :
             text[i] \notin {"?", "#"}}

RegexFilterMatches(requestUrl, caseSensitive) ==
  RegexLanguageLengths(requestUrl, caseSensitive) # {}

\* capture group 1 of a matching URL
RegexGroup1(requestUrl, caseSensitive) ==
  LET n == CHOOSE n \in RegexLanguageLengths(requestUrl, caseSensitive) : TRUE
  IN SubSeq(requestUrl, Len(RegexFilter.scheme) + n + Len(RegexFilter.site) + 1,
            Len(requestUrl))

RuleMatches(rule, requestUrl, caseSensitive) ==
  IF rule.type = "redirect"
  THEN RegexFilterMatches(requestUrl, caseSensitive)
  ELSE UrlFilterMatches(rule.urlFilter, requestUrl, caseSensitive)

\* what happens to a main-frame request: of the matching rules those of the
\* highest priority count, and among them allow comes before redirect
ApplyRules(rules, requestUrl, caseSensitive) ==
  LET matching == {r \in rules : RuleMatches(r, requestUrl, caseSensitive)}
      winners == {r \in matching : \A q \in matching : q.priority <= r.priority}
  IN IF winners # {} /\ \A r \in winners : r.type = "redirect"
     THEN [redirected |-> TRUE,
           location |-> RegexSubstitution(RegexGroup1(requestUrl, caseSensitive))]
     ELSE [redirected |-> FALSE, location |-> requestUrl]

----------------------------------------------------------------------------
(* The input strings                                                       *)

\* the most ".." segments a generated path suffix holds
MaxClimb == 2

Source(scheme, userinfo, host, port, prefix, rem, query, frag) ==
  [scheme |-> scheme, userinfo |-> userinfo, host |-> host, port |-> port,
   prefix |-> prefix, rem |-> rem, query |-> query, frag |-> frag]

\* the string a source is written as
Serialize(s) ==
  s.scheme \o s.userinfo \o s.host \o s.port \o s.prefix \o s.rem \o s.query \o s.frag

Schemes == {<<"h","t","t","p","s",":","/","/">>, <<"h","t","t","p",":","/","/">>, <<"H","T","T","P","S",":","/","/">>, <<"h","t","t","p","s",":">>, <<"f","t","p",":","/","/">>, <<"f","o","o",":","/","/">>, <<"/","/">>, <<>>}

Hosts == {<<"e","n",".","w","i","k","i","p","e","d","i","a",".","o","r","g">>, <<"d","e",".","w","i","k","i","p","e","d","i","a",".","o","r","g">>, <<"a","l","s",".","w","i","k","i","p","e","d","i","a",".","o","r","g">>,
          <<"s","i","m","p","l","e",".","w","i","k","i","p","e","d","i","a",".","o","r","g">>, <<"w","w","w",".","w","i","k","i","p","e","d","i","a",".","o","r","g">>, <<"E","N",".","w","i","k","i","p","e","d","i","a",".","o","r","g">>,
          <<"D","e",".","W","i","k","i","p","e","d","i","a",".","O","r","g">>, <<"e","n",".","m",".","w","i","k","i","p","e","d","i","a",".","o","r","g">>, <<"w","i","k","i","p","e","d","i","a",".","o","r","g">>,
          <<".","w","i","k","i","p","e","d","i","a",".","o","r","g">>, <<"e",".","w","i","k","i","p","e","d","i","a",".","o","r","g">>, <<"e","2",".","w","i","k","i","p","e","d","i","a",".","o","r","g">>,
          <<"a","b","c","d",".","w","i","k","i","p","e","d","i","a",".","o","r","g">>, <<"S","i","m","p","l","e",".","w","i","k","i","p","e","d","i","a",".","o","r","g">>, <<"e","n",".","w","i","k","i","p","e","d","i","a",".","o","r","g",".">>,
          <<"e","n",".","w","i","k","i","p","e","d","i","a","%","2","E","o","r","g">>, <<"%","4","5","n",".","w","i","k","i","p","e","d","i","a",".","o","r","g">>, <<"e","n",".","w","i","k","i","p","e","d","i","a",".","o","r","g",".","e","v","i","l",".","c","o","m">>,
          <<"e","v","i","l","w","i","k","i","p","e","d","i","a",".","o","r","g">>, <<"g","o","o","g","l","e",".","c","o","m">>, <<"e","n"," ","w","i","k","i","p","e","d","i","a",".","o","r","g">>, <<>>}

Ports == {<<>>, <<":","8","0","8","0">>, <<":">>, <<":","x">>, <<":","9","9","9","9","9">>}
UserInfos == {<<>>, <<"u","@">>, <<"e","n",".","w","i","k","i","p","e","d","i","a",".","o","r","g","@">>}

Prefixes == {<<"/","w","i","k","i","/">>, <<"/","w","i","k","i">>, <<"/","w","/">>, <<"/","W","i","k","i","/">>, <<"/">>, <<>>, <<"\\","w","i","k","i","\\">>,
             <<"/","x","/",".",".","/","w","i","k","i","/">>, <<"/",".","/","w","i","k","i","/">>, <<"/","w","i","k","i","/","/">>, <<"/","a","/","w","i","k","i","/">>, <<"/","w","i","k","i","/",".",".","/">>}

Rems == {<<>>, <<"M","a","i","n","_","P","a","g","e">>, <<"A","l","b","e","r","t","_","E","i","n","s","t","e","i","n">>, <<"B","e","r","l","i","n">>, <<"C","%","2","B","%","2","B">>,
         <<"S","%","C","3","%","A","1","m","i","_","p","e","o","p","l","e">>, <<"S","U+00E1","m","i","_","p","e","o","p","l","e">>, <<"U+6771">>, <<"A"," ","B">>, <<"A"," ">>, <<"I","n","v","a","l","i","d","%","Z","Z">>,
         <<"a","/","b">>, <<"A","\\","B">>, <<".",".">>, <<".">>, <<"a","/",".",".">>, <<"%","2","e","%","2","E">>, <<"T","a","\t","l","k",":","X">>, <<"T","a","l","k","%","3","A","X">>,
         <<"a","/",".",".","/","T","a","l","k",":","X">>, <<"M","a","i","n","_","P","a","g","e","/","x">>, <<"i","n","d","e","x",".","p","h","p">>}

Queries == {<<>>, <<"?","t","i","t","l","e","=","T","a","l","k",":","X">>}
Frags == {<<>>, <<"#","T","a","l","k",":","X">>}

RECURSIVE Ups(_)
Ups(k) == IF k = 0 THEN <<>> ELSE <<"/",".",".">> \o Ups(k - 1)

\* what is written after a namespace prefix
Suffixes == {b \o Ups(k) \o t : b \in {<<>>, <<"X">>, <<"/","a">>}, k \in 0..MaxClimb,
                               t \in {<<>>, <<"/","A">>, <<"/","w","i","k","i","/","B">>}}

Namespaces == {NamespaceLiteral[i] : i \in 1..Len(NamespaceLiteral)}

\* a prefix in another letter case, or not at the start
NearNamespaces == {ToLower(p) \o <<"X">> : p \in Namespaces}
                  \cup {<<"X">> \o p : p \in Namespaces}
                  \cup {SubSeq(p, 1, Len(p) - 1) : p \in Namespaces}

Garbage == {<<>>, <<"n","o","t"," ","a"," ","u","r","l">>, <<"m","a","i","l","t","o",":","x">>, <<"f","o","o",":","/","w","i","k","i","/","A">>, <<"f","o","o",":">>,
            <<" ","h","t","t","p","s",":","/","/","e","n",".","w","i","k","i","p","e","d","i","a",".","o","r","g","/","w","i","k","i","/","A"," ">>, <<"\t","h","t","t","p","s",":","/","/","e","n",".","w","i","k","i","p","e","d","i","a",".","o","r","g","/","w","i","k","i","/","\n">>,
            <<"h","t","\t","t","p","s",":","/","/","e","n",".","w","i","k","i","p","e","d","i","a",".","o","r","g","/","w","i","k","i","/","A">>, <<"1","h","t","t","p","s",":","/","/","e","n",".","w","i","k","i","p","e","d","i","a",".","o","r","g","/","w","i","k","i","/","A">>,
            <<"h","t","t","p","s"," ",":","/","/","e","n",".","w","i","k","i","p","e","d","i","a",".","o","r","g","/","w","i","k","i","/","A">>, <<"/","w","i","k","i","/","A">>, <<"e","n",".","w","i","k","i","p","e","d","i","a",".","o","r","g","/","w","i","k","i","/","A",":","b">>}

En == <<"e","n",".","w","i","k","i","p","e","d","i","a",".","o","r","g">>
Https == <<"h","t","t","p","s",":","/","/">>

Sources ==
  {Source(sc, <<>>, h, <<>>, WikiMarker, r, <<>>, <<>>) :
     sc \in Schemes, h \in Hosts, r \in {<<>>, <<"B","e","r","l","i","n">>}}
  \cup {Source(Https, u, h, p, WikiMarker, <<"B","e","r","l","i","n">>, <<>>, <<>>) :
     u \in UserInfos, h \in Hosts, p \in Ports}
  \cup {Source(Https, <<>>, En, <<>>, pre, r, q, f) :
     pre \in Prefixes, r \in Rems, q \in Queries, f \in Frags}
  \cup {Source(Https, <<>>, <<"w","w","w",".","w","i","k","i","p","e","d","i","a",".","o","r","g">>, <<>>, WikiMarker, r, <<>>, <<>>) : r \in Rems}
  \cup {Source(Https, <<>>, En, <<>>, WikiMarker, p \o s, <<>>, <<>>) :
     p \in Namespaces, s \in Suffixes}
  \cup {Source(Https, <<>>, En, <<>>, WikiMarker, r, <<>>, <<>>) : r \in NearNamespaces}
  \cup {Source(<<>>, <<>>, g, <<>>, <<>>, <<>>, <<>>, <<>>) : g \in Garbage}

----------------------------------------------------------------------------
(* The calls: the exported functions keep no state of their own, and any of *)
(* them can be called after any other                                      *)

NoValue == "none"
NoArgs == [articleName |-> <<>>, language |-> <<>>, enabledLanguages |-> <<>>]

\* what the calls of the URL core leave alone
helperVars == <<args>>
extVars == <<sync, pending, locals, page, worker, tab>>

NoSource == Source(<<>>, <<>>, <<>>, <<>>, <<>>, <<>>, <<>>, <<>>)
NoLocals == EmptyObject
NoPage == [open |-> FALSE]
NoTab == [requested |-> FALSE]
WorkerStopped ==
  [listening |-> FALSE, starting |-> FALSE, settings |-> EmptyObject, rules |-> {},
   failed |-> FALSE]
NoEvents == [content |-> <<>>, worker |-> <<>>]

\* no extension context runs and nothing is stored
ExtensionNotRunning ==
  /\ sync = EmptyObject
  /\ pending = NoEvents
  /\ locals = NoLocals
  /\ page = NoPage
  /\ worker = WorkerStopped
  /\ tab = NoTab

Init ==
  /\ args = NoArgs
  /\ ExtensionNotRunning
  /\ src \in Sources
  /\ url = Serialize(src)
  /\ pc = "idle"
  /\ ret = NoValue
  /\ calls = <<>>
  /\ EXCLUDED_NAMESPACES = NamespaceLiteral

\* faulty variant of the call: the answer depends on the stored settings
CallIsArticlePage_WhenEnabled ==
  /\ pc' = "isArticlePage"
  /\ ret' = (isArticlePage(url) /\ getSettings(sync, FALSE).enabled)
  /\ calls' = <<>>
  /\ UNCHANGED <<src, url, EXCLUDED_NAMESPACES, helperVars, extVars>>

CallIsArticlePage ==
  /\ pc' = "isArticlePage"
  /\ ret' = isArticlePage(url)
  /\ calls' = <<>>
  /\ UNCHANGED <<src, url, EXCLUDED_NAMESPACES, helperVars, extVars>>

CallExtractLanguage ==
  /\ pc' = "extractLanguage"
  /\ ret' = extractLanguage(url)
  /\ calls' = <<>>
  /\ UNCHANGED <<src, url, EXCLUDED_NAMESPACES, helperVars, extVars>>

CallExtractArticleName ==
  /\ pc' = "extractArticleName"
  /\ ret' = extractArticleName(url)
  /\ calls' = <<>>
  /\ UNCHANGED <<src, url, EXCLUDED_NAMESPACES, helperVars, extVars>>

CallTransformToGrokipedia ==
  /\ pc' = "transformToGrokipedia"
  /\ LET t == transformToGrokipedia(url)
     IN ret' = t.result /\ calls' = t.calls
  /\ UNCHANGED <<src, url, EXCLUDED_NAMESPACES, helperVars, extVars>>

Next ==
  \/ CallIsArticlePage
  \/ CallExtractLanguage
  \/ CallExtractArticleName
  \/ CallTransformToGrokipedia

SpecUrl == Init /\ [][Next]_vars


----------------------------------------------------------------------------
(* The helpers decodeArticleName and isLanguageEnabled, called on their own *)

\* the most language codes an allow-list of the helper inputs holds
MaxListLen == 2

NameHeads == {<<>>, <<"S","%","C","3","%","A","1","m","i","_","p","e","o","p","l","e">>, <<"_">>, <<"A","_","B","_">>, <<"%","5","F">>, <<"%","5","f","_">>, <<"1","0","0","%">>, <<"%">>, <<"%","4">>, <<"%","Z","Z">>, <<"%","G","1">>, <<"U+6771","_">>}
NameTails == {<<>>, <<"_","b">>, <<"%","2","0">>, <<"%","2","B","%","2","b">>, <<"%","C","3","%","A","1">>, <<"%","c","3","%","a","1","_">>, <<"%","E","6","%","9","D","%","B","1">>, <<"%","F","0","%","9","F","%","9","8","%","8","0">>,
              <<"%","C","3">>, <<"%","C","3","_","A","1">>, <<"%","C","3","%","4","1">>, <<"%","A","1">>, <<"%","C","0","%","A","F">>, <<"%","E","0","%","8","0","%","A","F">>, <<"%","E","D","%","A","0","%","8","0">>,
              <<"%","F","4","%","9","0","%","8","0","%","8","0">>, <<"%","F","8","%","8","8","%","8","0","%","8","0","%","8","0">>, <<"%","E","6","%","9","D">>, <<"%","0","0">>, <<"%","0","9">>, <<"%","7","E","%","2","5">>}
ArticleNames == {h \o t : h \in NameHeads, t \in NameTails}

LanguageCodes == {<<"e","n">>, <<"d","e">>, <<"E","N">>, <<"E","n">>, <<"e">>, <<>>}

RECURSIVE ListsUpTo(_, _)
ListsUpTo(S, n) ==
  IF n = 0 THEN {<<>>}
  ELSE LET shorter == ListsUpTo(S, n - 1)
       IN shorter \cup {Append(l, x) : l \in shorter, x \in S}

AllowLists == ListsUpTo({<<"e","n">>, <<"d","e">>, <<"E","N">>}, MaxListLen)

InitHelpers ==
  /\ args \in {[articleName |-> a, language |-> <<>>, enabledLanguages |-> <<>>] :
                 a \in ArticleNames}
          \cup {[articleName |-> <<>>, language |-> l, enabledLanguages |-> e] :
                 l \in LanguageCodes, e \in AllowLists}
  /\ src = NoSource
  /\ url = <<>>
  /\ pc = "idle"
  /\ ret = NoValue
  /\ calls = <<>>
  /\ EXCLUDED_NAMESPACES = NamespaceLiteral
  /\ ExtensionNotRunning

CallDecodeArticleName ==
  /\ pc' = "decodeArticleName"
  /\ ret' = decodeArticleName(args.articleName)
  /\ UNCHANGED <<src, url, calls, EXCLUDED_NAMESPACES, args, extVars>>

CallIsLanguageEnabled ==
  /\ pc' = "isLanguageEnabled"
  /\ ret' = isLanguageEnabled(args.language, args.enabledLanguages)
  /\ UNCHANGED <<src, url, calls, EXCLUDED_NAMESPACES, args, extVars>>

NextHelpers ==
  \/ CallDecodeArticleName
  \/ CallIsLanguageEnabled

SpecHelpers == InitHelpers /\ [][NextHelpers]_vars

----------------------------------------------------------------------------
(* The settings store: src/src/utils/storage.ts on chrome.storage.sync     *)

\* the most change events that wait for one listener
MaxPending == 1

\* the partial settings handed to saveSettings
Partials ==
  {EmptyObject,
   [autoRedirect |-> TRUE], [autoRedirect |-> FALSE],
   [enabled |-> FALSE], [enabled |-> TRUE, autoRedirect |-> FALSE],
   [enabledLanguages |-> <<<<"d","e">>>>], [enabledLanguages |-> <<>>]}

\* what chrome.storage.sync holds when a behaviour starts: nothing, an object
\* with some of the fields, all five fields
StartAreas ==
  {EmptyObject,
   [userSettings |-> [autoRedirect |-> TRUE]],
   [userSettings |-> [enabled |-> FALSE, enabledLanguages |-> <<<<"d","e">>, <<"e","n">>>>]],
   [userSettings |-> [autoRedirect |-> TRUE, useNotifications |-> TRUE,
                      redirectDelay |-> 500, enabledLanguages |-> <<>>,
                      enabled |-> TRUE]]}

\* the contexts whose chrome.storage.onChanged listener is registered
Listening(context) ==
  IF context = "content" THEN page.open ELSE worker.listening

\* the event chrome.storage.onChanged delivers when the sync area goes from old
\* to new: the area name and the StorageChange of STORAGE_KEY
Change(old, new) ==
  [areaName |-> "sync",
   changes |-> [k \in {STORAGE_KEY} |->
                  IF STORAGE_KEY \in DOMAIN old
                  THEN [newValue |-> new[STORAGE_KEY], oldValue |-> old[STORAGE_KEY]]
                  ELSE [newValue |-> new[STORAGE_KEY]]]]

\* every registered listener can take one more change event
RoomForEvent ==
  \A c \in DOMAIN pending : Listening(c) => Len(pending[c]) < MaxPending

\* chrome.storage.sync.set resolving: the item is written, and a change of its
\* value is queued for every registered listener
Written(value) ==
  LET new == SyncSet(sync, value)
  IN /\ sync' = new
     /\ pending' = [c \in DOMAIN pending |->
                      IF Listening(c) /\ new # sync
                      THEN Append(pending[c], Change(sync, new))
                      ELSE pending[c]]

GetSettings ==
  \E readFails \in BOOLEAN :
    /\ pc' = "getSettings"
    /\ ret' = getSettings(sync, readFails)
    /\ locals' = [readFails |-> readFails]
    /\ UNCHANGED <<src, url, calls, EXCLUDED_NAMESPACES, args>>
    /\ UNCHANGED <<sync, pending, page, worker, tab>>

\* the error chrome.storage.sync.set rejects with
StorageError == "Storage error"

\* faulty variant of SaveSettings: the rejection of chrome.storage.sync.set
\* caught and logged, as getSettings does with its read
SaveSettings_ErrorCaught ==
  \E settings \in Partials, readFails \in BOOLEAN, writeFails \in BOOLEAN :
    LET s == saveSettings(sync, settings, readFails)
    IN /\ RoomForEvent
       /\ pc' = "saveSettings"
       /\ locals' = [settings |-> settings, current |-> s.current,
                     updated |-> s.updated, readFails |-> readFails,
                     writeFails |-> writeFails]
       /\ IF writeFails
          THEN ret' = "resolved" /\ UNCHANGED <<sync, pending>>
          ELSE ret' = "resolved" /\ Written(s.updated)
       /\ UNCHANGED <<src, url, calls, EXCLUDED_NAMESPACES, args>>
       /\ UNCHANGED <<page, worker, tab>>

SaveSettings ==
  \E settings \in Partials, readFails \in BOOLEAN, writeFails \in BOOLEAN :
    LET s == saveSettings(sync, settings, readFails)
    IN /\ RoomForEvent
       /\ pc' = "saveSettings"
       /\ locals' = [settings |-> settings, current |-> s.current,
                     updated |-> s.updated, readFails |-> readFails,
                     writeFails |-> writeFails]
       /\ IF writeFails
          THEN ret' = StorageError /\ UNCHANGED <<sync, pending>>
          ELSE ret' = "resolved" /\ Written(s.updated)
       /\ UNCHANGED <<src, url, calls, EXCLUDED_NAMESPACES, args>>
       /\ UNCHANGED <<page, worker, tab>>

\* faulty variant of ResetSettings: the defaults saved over the stored settings
\* with the language list kept
ResetSettings_KeepsLanguages ==
  \E writeFails \in BOOLEAN :
    /\ RoomForEvent
    /\ pc' = "resetSettings"
    /\ locals' = NoLocals
    /\ IF writeFails
       THEN ret' = StorageError /\ UNCHANGED <<sync, pending>>
       ELSE /\ ret' = "resolved"
            /\ Written([DEFAULT_SETTINGS EXCEPT !.enabledLanguages =
                          getSettings(sync, FALSE).enabledLanguages])
    /\ UNCHANGED <<src, url, calls, EXCLUDED_NAMESPACES, args>>
    /\ UNCHANGED <<page, worker, tab>>

ResetSettings ==
  \E writeFails \in BOOLEAN :
    /\ RoomForEvent
    /\ pc' = "resetSettings"
    /\ locals' = NoLocals
    /\ IF writeFails
       THEN ret' = StorageError /\ UNCHANGED <<sync, pending>>
       ELSE ret' = "resolved" /\ Written(DEFAULT_SETTINGS)
    /\ UNCHANGED <<src, url, calls, EXCLUDED_NAMESPACES, args>>
    /\ UNCHANGED <<page, worker, tab>>

\* the rest of a function that has decided what to save: its saveSettings
\* call (none when `call.saves` is false), and the outcome in `locals`
Save(name, call, argument, value, readFails, saveReadFails, writeFails) ==
  LET s == saveSettings(sync, call.save, saveReadFails)
      wrote == call.saves /\ ~writeFails
  IN /\ RoomForEvent
     /\ pc' = name
     /\ locals' = [argument |-> argument, call |-> call, readFails |-> readFails,
                   saveReadFails |-> saveReadFails, wrote |-> wrote]
     /\ IF wrote THEN Written(s.updated) ELSE UNCHANGED <<sync, pending>>
     /\ ret' = IF call.saves /\ writeFails THEN StorageError ELSE value
     /\ UNCHANGED <<src, url, calls, EXCLUDED_NAMESPACES, args>>
     /\ UNCHANGED <<page, worker, tab>>

ToggleKeys == {"autoRedirect", "enabled"}

Languages == {<<"e","n">>, <<"f","r">>}

ToggleSetting ==
  \E key \in ToggleKeys, readFails \in BOOLEAN, saveReadFails \in BOOLEAN,
     writeFails \in BOOLEAN :
    Save("toggleSetting", toggleSetting(sync, key, readFails), key,
         toggleSetting(sync, key, readFails).newValue,
         readFails, saveReadFails, writeFails)

AddLanguage ==
  \E language \in Languages, readFails \in BOOLEAN, saveReadFails \in BOOLEAN,
     writeFails \in BOOLEAN :
    Save("addLanguage", addLanguage(sync, language, readFails), language, "resolved",
         readFails, saveReadFails, writeFails)

RemoveLanguage ==
  \E language \in Languages, readFails \in BOOLEAN, saveReadFails \in BOOLEAN,
     writeFails \in BOOLEAN :
    Save("removeLanguage", removeLanguage(sync, language, readFails), language, "resolved",
         readFails, saveReadFails, writeFails)

EnableAllLanguages ==
  \E saveReadFails \in BOOLEAN, writeFails \in BOOLEAN :
    Save("enableAllLanguages", enableAllLanguages, <<>>, "resolved",
         FALSE, saveReadFails, writeFails)

\* a stored list in which a language occurs twice
RepeatedLanguages == [userSettings |-> [enabledLanguages |-> <<<<"e","n">>, <<"d","e">>, <<"e","n">>>>]]

InitStorage ==
  /\ sync \in StartAreas \cup {RepeatedLanguages}
  /\ pending = NoEvents
  /\ locals = NoLocals
  /\ page = NoPage
  /\ worker = WorkerStopped
  /\ tab = NoTab
  /\ src = NoSource
  /\ url = <<>>
  /\ pc = "idle"
  /\ ret = NoValue
  /\ calls = <<>>
  /\ EXCLUDED_NAMESPACES = NamespaceLiteral
  /\ args = NoArgs

NextStorage ==
  \/ GetSettings
  \/ SaveSettings
  \/ ResetSettings
  \/ ToggleSetting
  \/ AddLanguage
  \/ RemoveLanguage
  \/ EnableAllLanguages

SpecStorage == InitStorage /\ [][NextStorage]_vars

\* the URL core called while the stored settings change
PureSources ==
  {Source(Https, <<>>, h, <<>>, WikiMarker, r, <<>>, <<>>) :
     h \in {En, <<"s","i","m","p","l","e",".","w","i","k","i","p","e","d","i","a",".","o","r","g">>, <<"g","o","o","g","l","e",".","c","o","m">>},
     r \in {<<"B","e","r","l","i","n">>, <<"T","a","l","k",":","B","e","r","l","i","n">>}}
  \cup {Source(Https, <<>>, En, <<>>, WikiMarker, <<>>, <<>>, <<>>)}

InitPure ==
  /\ sync \in StartAreas
  /\ pending = NoEvents
  /\ locals = NoLocals
  /\ page = NoPage
  /\ worker = WorkerStopped
  /\ tab = NoTab
  /\ src \in PureSources
  /\ url = Serialize(src)
  /\ pc = "idle"
  /\ ret = NoValue
  /\ calls = <<>>
  /\ EXCLUDED_NAMESPACES = NamespaceLiteral
  /\ args = NoArgs

NextPure ==
  \/ CallIsArticlePage
  \/ CallExtractLanguage
  \/ CallExtractArticleName
  \/ CallTransformToGrokipedia
  \/ SaveSettings
  \/ ResetSettings

SpecPure == InitPure /\ [][NextPure]_vars

----------------------------------------------------------------------------
(* A Wikipedia page with the content script in it                          *)

PageHrefs ==
  {<<"h","t","t","p","s",":","/","/","e","n",".","w","i","k","i","p","e","d","i","a",".","o","r","g","/","w","i","k","i","/","B","e","r","l","i","n">>,
   <<"h","t","t","p","s",":","/","/","d","e",".","w","i","k","i","p","e","d","i","a",".","o","r","g","/","w","i","k","i","/","S","%","C","3","%","A","1","m","i","_","p","e","o","p","l","e">>,
   <<"h","t","t","p","s",":","/","/","e","n",".","w","i","k","i","p","e","d","i","a",".","o","r","g","/","w","i","k","i","/","T","a","l","k",":","B","e","r","l","i","n">>,
   <<"h","t","t","p","s",":","/","/","e","n",".","m",".","w","i","k","i","p","e","d","i","a",".","o","r","g","/","w","i","k","i","/","B","e","r","l","i","n">>}

\* the timers of performRedirect that one page holds at a time
MaxTimers == 1

\* the page when the content script is injected
LoadedPage(href) ==
  [open |-> TRUE, href |-> href, initialized |-> FALSE, settings |-> EmptyObject,
   location |-> href, timers |-> <<>>, notifications |-> <<>>, banner |-> {}]

\* the events of a page that has been left are never delivered
AfterPageStep(events) ==
  IF page'.open THEN events ELSE [pending EXCEPT !.content = <<>>]

\* faulty variant of ContentInitialize: the settings read are stored back
ContentInitialize_StoresSettings ==
  /\ page.open
  /\ ~page.initialized
  /\ \E messageFails \in BOOLEAN, readFails \in BOOLEAN :
       LET settings == ContentGetSettings(sync, messageFails, readFails)
           loaded == [page EXCEPT !.initialized = TRUE, !.settings = settings]
       IN /\ page' = Perform(loaded, initialize(page.href, settings))
          /\ sync' = SyncSet(sync, settings)
  /\ pending' = AfterPageStep(pending)
  /\ UNCHANGED <<src, url, calls, EXCLUDED_NAMESPACES, args>>
  /\ UNCHANGED <<pc, ret, locals, worker, tab>>

ContentInitialize ==
  /\ page.open
  /\ ~page.initialized
  /\ \E messageFails \in BOOLEAN, readFails \in BOOLEAN :
       LET settings == ContentGetSettings(sync, messageFails, readFails)
           loaded == [page EXCEPT !.initialized = TRUE, !.settings = settings]
       IN page' = Perform(loaded, initialize(page.href, settings))
  /\ pending' = AfterPageStep(pending)
  /\ UNCHANGED <<src, url, calls, EXCLUDED_NAMESPACES, args>>
  /\ UNCHANGED <<pc, ret, sync, locals, worker, tab>>

ContentOnChanged ==
  /\ page.open
  /\ pending.content # <<>>
  /\ page' = Perform(page, onChanged(page.href, Head(pending.content)))
  /\ Len(page'.timers) <= MaxTimers
  /\ pending' = AfterPageStep([pending EXCEPT !.content = Tail(pending.content)])
  /\ UNCHANGED <<src, url, calls, EXCLUDED_NAMESPACES, args>>
  /\ UNCHANGED <<pc, ret, sync, locals, worker, tab>>

\* what the controls of the options page send with UPDATE_SETTINGS
ControlChanges ==
  {[autoRedirect |-> TRUE], [autoRedirect |-> FALSE], [enabled |-> FALSE],
   [enabledLanguages |-> <<<<"d","e">>>>]}

\* a control of the options page changed: the page sends UPDATE_SETTINGS and the
\* service worker's handleMessage saves the partial settings
UpdateSettings ==
  \E settings \in ControlChanges, readFails \in BOOLEAN, writeFails \in BOOLEAN :
    /\ RoomForEvent
    /\ IF writeFails
       THEN UNCHANGED <<sync, pending>>
       ELSE Written(saveSettings(sync, settings, readFails).updated)
    /\ UNCHANGED <<src, url, calls, EXCLUDED_NAMESPACES, args>>
    /\ UNCHANGED <<pc, ret, locals, page, worker, tab>>

\* a timer set by performRedirect expires
TimerFires ==
  /\ page.open
  /\ \E i \in DOMAIN page.timers :
       page' = [page EXCEPT !.location = page.timers[i], !.open = FALSE,
                            !.timers = SubSeq(page.timers, 1, i - 1)
                                         \o SubSeq(page.timers, i + 1, Len(page.timers))]
  /\ pending' = AfterPageStep(pending)
  /\ UNCHANGED <<src, url, calls, EXCLUDED_NAMESPACES, args>>
  /\ UNCHANGED <<pc, ret, sync, locals, worker, tab>>

InitPage ==
  /\ sync \in StartAreas
  /\ pending = NoEvents
  /\ locals = NoLocals
  /\ page \in {LoadedPage(href) : href \in PageHrefs}
  /\ worker = WorkerStopped
  /\ tab = NoTab
  /\ src = NoSource
  /\ url = <<>>
  /\ pc = "idle"
  /\ ret = NoValue
  /\ calls = <<>>
  /\ EXCLUDED_NAMESPACES = NamespaceLiteral
  /\ args = NoArgs

NextPage ==
  \/ ContentInitialize
  \/ ContentOnChanged
  \/ TimerFires
  \/ UpdateSettings

SpecPage == InitPage /\ [][NextPage]_vars

----------------------------------------------------------------------------
(* The service worker and the requests of a tab                            *)

\* main-frame request URLs, as the browser serialises them
RequestUrls ==
  {<<"h","t","t","p","s",":","/","/","e","n",".","w","i","k","i","p","e","d","i","a",".","o","r","g","/","w","i","k","i","/","B","e","r","l","i","n">>,
   <<"h","t","t","p","s",":","/","/","d","e",".","w","i","k","i","p","e","d","i","a",".","o","r","g","/","w","i","k","i","/","B","e","r","l","i","n">>,
   <<"h","t","t","p","s",":","/","/","e","n",".","w","i","k","i","p","e","d","i","a",".","o","r","g","/","w","i","k","i","/","T","a","l","k",":","B","e","r","l","i","n">>,
   <<"h","t","t","p","s",":","/","/","e","n",".","w","i","k","i","p","e","d","i","a",".","o","r","g","/","w","i","k","i","/","M","e","d","i","a","W","i","k","i",":","C","o","m","m","o","n",".","c","s","s">>,
   <<"h","t","t","p","s",":","/","/","e","n",".","w","i","k","i","p","e","d","i","a",".","o","r","g","/","w","i","k","i","/","s","p","e","c","i","a","l",":","S","e","a","r","c","h">>,
   <<"h","t","t","p","s",":","/","/","s","i","m","p","l","e",".","w","i","k","i","p","e","d","i","a",".","o","r","g","/","w","i","k","i","/","B","e","r","l","i","n">>,
   <<"h","t","t","p","s",":","/","/","e","n",".","w","i","k","i","p","e","d","i","a",".","o","r","g","/","w","i","k","i","/","B","e","r","l","i","n","?","a","c","t","i","o","n","=","h","i","s","t","o","r","y">>,
   <<"h","t","t","p","s",":","/","/","e","n",".","w","i","k","i","p","e","d","i","a",".","o","r","g","/","w","/","i","n","d","e","x",".","p","h","p">>}

\* initialize (service worker) up to the settings it awaits
WorkerInitialize ==
  /\ ~worker.listening
  /\ ~worker.starting
  /\ \E readFails \in BOOLEAN :
       worker' = [worker EXCEPT !.starting = TRUE,
                                !.settings = getSettings(sync, readFails),
                                !.failed = worker.failed \/ readFails]
  /\ UNCHANGED <<src, url, calls, EXCLUDED_NAMESPACES, args>>
  /\ UNCHANGED <<pc, ret, sync, pending, locals, page, tab>>

\* the rest of initialize: updateRedirectRules with the settings read, then
\* onSettingsChange registers the listener
WorkerListen ==
  /\ worker.starting
  /\ \E updateFails \in BOOLEAN :
       worker' = [listening |-> TRUE, starting |-> FALSE, settings |-> EmptyObject,
                  rules |-> updateRedirectRules(worker.rules, worker.settings, updateFails),
                  failed |-> worker.failed \/ updateFails]
  /\ UNCHANGED <<src, url, calls, EXCLUDED_NAMESPACES, args>>
  /\ UNCHANGED <<pc, ret, sync, pending, locals, page, tab>>

\* the callback given to onSettingsChange
WorkerOnSettingsChange ==
  /\ worker.listening
  /\ pending.worker # <<>>
  /\ \E updateFails \in BOOLEAN :
       LET call == listener(Head(pending.worker))
       IN worker' = IF call.invoked
                    THEN [worker EXCEPT
                            !.rules = updateRedirectRules(worker.rules, call.newSettings,
                                                          updateFails),
                            !.failed = worker.failed \/ updateFails]
                    ELSE worker
  /\ pending' = [pending EXCEPT !.worker = Tail(pending.worker)]
  /\ UNCHANGED <<src, url, calls, EXCLUDED_NAMESPACES, args>>
  /\ UNCHANGED <<pc, ret, sync, locals, page, tab>>

\* the tab requests its main-frame URL, again at any time, and the browser applies the dynamic rules
Navigate ==
  /\ LET outcome == ApplyRules(worker.rules, tab.url, tab.caseSensitive)
     IN tab' = [tab EXCEPT !.requested = TRUE,
                           !.redirected = outcome.redirected,
                           !.location = outcome.location]
  /\ UNCHANGED <<src, url, calls, EXCLUDED_NAMESPACES, args>>
  /\ UNCHANGED <<pc, ret, sync, pending, locals, page, worker>>

\* a tab in a browser whose url filters are, or are not, case sensitive
NewTab(requestUrl, caseSensitive) ==
  [requested |-> FALSE, url |-> requestUrl, redirected |-> FALSE, location |-> <<>>,
   caseSensitive |-> caseSensitive]

InitRules ==
  /\ sync \in StartAreas
  /\ pending = NoEvents
  /\ locals = NoLocals
  /\ page = NoPage
  /\ worker = WorkerStopped
  /\ tab \in {NewTab(requestUrl, caseSensitive) :
                requestUrl \in RequestUrls, caseSensitive \in BOOLEAN}
  /\ src = NoSource
  /\ url = <<>>
  /\ pc = "idle"
  /\ ret = NoValue
  /\ calls = <<>>
  /\ EXCLUDED_NAMESPACES = NamespaceLiteral
  /\ args = NoArgs

NextRules ==
  \/ WorkerInitialize
  \/ WorkerListen
  \/ WorkerOnSettingsChange
  \/ Navigate
  \/ UpdateSettings

SpecRules == InitRules /\ [][NextRules]_vars


\* the service worker started in a browser that kept the dynamic rules of an
\* earlier session or has none, with one tab
InitUpdates ==
  /\ sync \in StartAreas
  /\ pending = NoEvents
  /\ locals = NoLocals
  /\ page = NoPage
  /\ worker \in {[WorkerStopped EXCEPT !.rules = rules] : rules \in {{}, createRedirectRules}}
  /\ tab = NewTab(<<"h","t","t","p","s",":","/","/","e","n",".","w","i","k","i","p","e","d","i","a",".","o","r","g","/","w","i","k","i","/","B","e","r","l","i","n">>, TRUE)
  /\ src = NoSource
  /\ url = <<>>
  /\ pc = "idle"
  /\ ret = NoValue
  /\ calls = <<>>
  /\ EXCLUDED_NAMESPACES = NamespaceLiteral
  /\ args = NoArgs

SpecUpdates == InitUpdates /\ [][NextRules]_vars
----------------------------------------------------------------------------
(* A callback registered with onSettingsChange, and unregistered again     *)

\* changes chrome.storage.onChanged reports that are not changes of the
\* settings item of the sync area
OtherChanges ==
  {[areaName |-> "local",
    changes |-> [k \in {"notification-1"} |-> [newValue |-> [url |-> <<"u">>]]]],
   [areaName |-> "local",
    changes |-> [k \in {STORAGE_KEY} |-> [newValue |-> [autoRedirect |-> TRUE]]]],
   [areaName |-> "sync",
    changes |-> [k \in {"theme"} |-> [newValue |-> [dark |-> TRUE],
                                     oldValue |-> [dark |-> FALSE]]]]}

\* onSettingsChange(callback): the listener is added to chrome.storage.onChanged
Subscribe ==
  /\ ~worker.listening
  /\ worker' = [worker EXCEPT !.listening = TRUE]
  /\ pc' = "onSettingsChange"
  /\ ret' = "unsubscribe"
  /\ locals' = NoLocals
  /\ UNCHANGED <<src, url, calls, EXCLUDED_NAMESPACES, args>>
  /\ UNCHANGED <<sync, pending, page, tab>>

\* the function onSettingsChange returned: the listener is removed, and the
\* events not yet dispatched no longer reach it
Unsubscribe ==
  /\ worker.listening
  /\ worker' = [worker EXCEPT !.listening = FALSE]
  /\ pending' = [pending EXCEPT !.worker = <<>>]
  /\ pc' = "unsubscribe"
  /\ ret' = NoValue
  /\ locals' = NoLocals
  /\ UNCHANGED <<src, url, calls, EXCLUDED_NAMESPACES, args>>
  /\ UNCHANGED <<sync, page, tab>>

\* something else is stored: another area or another item changes, and
\* chrome.storage.onChanged reports it to the registered listener
StorageChanged ==
  \E event \in OtherChanges :
    /\ worker.listening
    /\ RoomForEvent
    /\ pending' = [pending EXCEPT !.worker = Append(pending.worker, event)]
    /\ pc' = "storageChanged"
    /\ ret' = NoValue
    /\ locals' = [event |-> event]
    /\ UNCHANGED <<src, url, calls, EXCLUDED_NAMESPACES, args>>
    /\ UNCHANGED <<sync, page, worker, tab>>

\* chrome.storage.onChanged dispatches the oldest event to the listener
Deliver ==
  /\ worker.listening
  /\ pending.worker # <<>>
  /\ pending' = [pending EXCEPT !.worker = Tail(pending.worker)]
  /\ pc' = "listener"
  /\ ret' = NoValue
  /\ locals' = [event |-> Head(pending.worker),
                callback |-> listener(Head(pending.worker))]
  /\ UNCHANGED <<src, url, calls, EXCLUDED_NAMESPACES, args>>
  /\ UNCHANGED <<sync, page, worker, tab>>

InitListener ==
  /\ sync \in StartAreas
  /\ pending = NoEvents
  /\ locals = NoLocals
  /\ page = NoPage
  /\ worker = WorkerStopped
  /\ tab = NoTab
  /\ src = NoSource
  /\ url = <<>>
  /\ pc = "idle"
  /\ ret = NoValue
  /\ calls = <<>>
  /\ EXCLUDED_NAMESPACES = NamespaceLiteral
  /\ args = NoArgs

NextListener ==
  \/ Subscribe
  \/ Unsubscribe
  \/ SaveSettings
  \/ StorageChanged
  \/ Deliver

SpecListener == InitListener /\ [][NextListener]_vars

----------------------------------------------------------------------------
(* Two calls of storage.ts running at once: each await of a call is a step, *)
(* and the steps of the two calls interleave in any order                   *)

\* a call that has been made and has not yet run to its first await; what
\* saveSettings is asked to save is known from the start
Call(name, argument) ==
  [name |-> name,
   argument |-> argument,
   phase |-> IF name = "saveSettings" THEN "saving" ELSE "called",
   plan |-> IF name = "saveSettings"
            THEN [saves |-> TRUE, save |-> argument.settings]
            ELSE EmptyObject,
   updated |-> EmptyObject]

\* the pairs of calls made together
RacingCalls ==
  {<<Call("saveSettings", [settings |-> [autoRedirect |-> TRUE]]),
     Call("saveSettings", [settings |-> [enabled |-> FALSE]])>>,
   <<Call("saveSettings", [settings |-> [redirectDelay |-> 500]]),
     Call("saveSettings", [settings |-> [useNotifications |-> TRUE,
                                         enabledLanguages |-> <<>>]])>>,
   <<Call("addLanguage", [language |-> <<"f","r">>]),
     Call("addLanguage", [language |-> <<"d","e">>])>>,
   <<Call("toggleSetting", [key |-> "enabled"]),
     Call("saveSettings", [settings |-> [autoRedirect |-> TRUE]])>>,
   <<Call("toggleSetting", [key |-> "autoRedirect"]),
     Call("saveSettings", [settings |-> [enabledLanguages |-> <<<<"f","r">>>>]])>>}

Racers == {1, 2}

\* the call moved on, the other one where it was
Moved(i, call) ==
  /\ locals' = [locals EXCEPT !.running[i] = call]
  /\ pc' = call.name
  /\ ret' = IF call.phase = "done" THEN "resolved" ELSE NoValue
  /\ UNCHANGED <<src, url, calls, EXCLUDED_NAMESPACES, args>>
  /\ UNCHANGED <<page, worker, tab>>

\* toggleSetting and addLanguage up to their call of saveSettings:
\* `await getSettings()` resumes, and what to save is computed from it
CallReads ==
  \E i \in Racers :
    LET call == locals.running[i]
        plan == IF call.name = "toggleSetting"
                THEN toggleSetting(sync, call.argument.key, FALSE)
                ELSE addLanguage(sync, call.argument.language, FALSE)
    IN /\ call.phase = "called"
       /\ Moved(i, [call EXCEPT !.plan = plan,
                                !.phase = IF plan.saves THEN "saving" ELSE "done"])
       /\ UNCHANGED <<sync, pending>>

\* saveSettings: `await getSettings()` resumes and updated is built
SaveReads ==
  \E i \in Racers :
    LET call == locals.running[i]
    IN /\ call.phase = "saving"
       /\ Moved(i, [call EXCEPT
                      !.updated = saveSettings(sync, call.plan.save, FALSE).updated,
                      !.phase = "writing"])
       /\ UNCHANGED <<sync, pending>>

\* saveSettings: chrome.storage.sync.set stores updated and resolves
SaveWrites ==
  \E i \in Racers :
    LET call == locals.running[i]
    IN /\ call.phase = "writing"
       /\ RoomForEvent
       /\ Written(call.updated)
       /\ Moved(i, [call EXCEPT !.phase = "done"])

InitRace ==
  /\ sync \in StartAreas
  /\ locals \in {[running |-> pair] : pair \in RacingCalls}
  /\ pending = NoEvents
  /\ page = NoPage
  /\ worker = WorkerStopped
  /\ tab = NoTab
  /\ src = NoSource
  /\ url = <<>>
  /\ pc = "idle"
  /\ ret = NoValue
  /\ calls = <<>>
  /\ EXCLUDED_NAMESPACES = NamespaceLiteral
  /\ args = NoArgs

NextRace ==
  \/ CallReads
  \/ SaveReads
  \/ SaveWrites

SpecRace == InitRace /\ [][NextRace]_vars

----------------------------------------------------------------------------
(* The options page: the grid of language checkboxes                       *)

\* the codes of SUPPORTED_LANGUAGES, in its order
SUPPORTED_LANGUAGES ==
  <<<<"e","n">>, <<"d","e">>, <<"f","r">>, <<"e","s">>, <<"i","t">>, <<"p","t">>, <<"r","u">>, <<"j","a">>, <<"z","h">>, <<"k","o">>,
    <<"a","r">>, <<"n","l">>, <<"p","l">>, <<"s","v">>, <<"u","k">>, <<"v","i">>, <<"h","e">>, <<"i","d">>, <<"t","r">>, <<"c","s">>>>

SupportedCodes == {SUPPORTED_LANGUAGES[i] : i \in DOMAIN SUPPORTED_LANGUAGES}

\* populateLanguages: the codes whose checkbox it creates checked
populateLanguages(enabledLanguages) ==
  LET allEnabled == Len(enabledLanguages) = 0
  IN {code \in SupportedCodes : allEnabled \/ Includes(enabledLanguages, code)}

\* getSelectedLanguages: the checked codes in the order of the grid, and the
\* empty list when every box is checked
getSelectedLanguages(checked) ==
  LET Checked(code) == code \in checked
      selected == SelectSeq(SUPPORTED_LANGUAGES, Checked)
  IN IF Len(selected) = Len(SUPPORTED_LANGUAGES) THEN <<>> ELSE selected

\* the checkboxes the user clicks
ClickedLanguages == {<<"e","n">>, <<"d","e">>, <<"c","s">>}

\* the options page sends UPDATE_SETTINGS, and handleMessage saves
OptionsSave(name, checked, settings, saveReadFails, writeFails) ==
  /\ page.open
  /\ RoomForEvent
  /\ page' = [page EXCEPT !.checked = checked]
  /\ pc' = name
  /\ locals' = [settings |-> settings, saveReadFails |-> saveReadFails]
  /\ IF writeFails
     THEN ret' = StorageError /\ UNCHANGED <<sync, pending>>
     ELSE ret' = "saved" /\ Written(saveSettings(sync, settings, saveReadFails).updated)
  /\ UNCHANGED <<src, url, calls, EXCLUDED_NAMESPACES, args>>
  /\ UNCHANGED <<worker, tab>>

\* initialize of the options page: the settings are asked of the service
\* worker, DEFAULT_SETTINGS standing in when that fails, and the grid is built
OptionsInitialize ==
  \E readFails \in BOOLEAN :
    /\ \/ ~page.open /\ UNCHANGED pending
       \/ /\ page.open
          /\ pending.content # <<>>
          /\ Head(pending.content).areaName = "sync"
          /\ STORAGE_KEY \in DOMAIN Head(pending.content).changes
          /\ pending' = [pending EXCEPT !.content = Tail(pending.content)]
    /\ page' = [open |-> TRUE,
                checked |-> populateLanguages(getSettings(sync, readFails).enabledLanguages)]
    /\ pc' = "initialize"
    /\ ret' = NoValue
    /\ locals' = [readFails |-> readFails]
    /\ UNCHANGED <<src, url, calls, EXCLUDED_NAMESPACES, args>>
    /\ UNCHANGED <<sync, worker, tab>>

\* the user clicks one checkbox of the grid, and handleLanguageChange runs
HandleLanguageChange ==
  \E code \in ClickedLanguages, saveReadFails \in BOOLEAN, writeFails \in BOOLEAN :
    LET checked == IF code \in page.checked THEN page.checked \ {code}
                   ELSE page.checked \cup {code}
    IN OptionsSave("handleLanguageChange", checked,
                   [enabledLanguages |-> getSelectedLanguages(checked)],
                   saveReadFails, writeFails)

\* the click handler of selectAllBtn
SelectAll ==
  \E saveReadFails \in BOOLEAN, writeFails \in BOOLEAN :
    OptionsSave("selectAll", SupportedCodes, [enabledLanguages |-> <<>>],
                saveReadFails, writeFails)

\* the click handler of selectNoneBtn: the box of English is checked again
\* only when updateSettings has returned
SelectNone ==
  \E saveReadFails \in BOOLEAN, writeFails \in BOOLEAN :
    OptionsSave("selectNone", IF writeFails THEN {} ELSE {<<"e","n">>},
                [enabledLanguages |-> <<<<"e","n">>>>], saveReadFails, writeFails)

InitOptions ==
  /\ sync \in StartAreas
  /\ pending = NoEvents
  /\ locals = NoLocals
  /\ page = NoPage
  /\ worker = WorkerStopped
  /\ tab = NoTab
  /\ src = NoSource
  /\ url = <<>>
  /\ pc = "idle"
  /\ ret = NoValue
  /\ calls = <<>>
  /\ EXCLUDED_NAMESPACES = NamespaceLiteral
  /\ args = NoArgs

NextOptions ==
  \/ OptionsInitialize
  \/ HandleLanguageChange
  \/ SelectAll
  \/ SelectNone

SpecOptions == InitOptions /\ [][NextOptions]_vars

----------------------------------------------------------------------------
(* The service worker: its messages, and the notifications it shows        *)

\* the readings of Date.now() that showNotification makes its identifiers of
MaxNow == 1

\* the tabs the click handlers create
MaxTabs == 1

GrokipediaUrls == {<<"h","t","t","p","s",":","/","/","g","r","o","k","i","p","e","d","i","a",".","c","o","m","/","p","a","g","e","/","B","e","r","l","i","n">>, <<"h","t","t","p","s",":","/","/","g","r","o","k","i","p","e","d","i","a",".","c","o","m","/","p","a","g","e","/","P","a","r","i","s">>}

\* nothing is shown, chrome.storage.local holds no notification entry
WorkerIdle == [listening |-> FALSE, shown |-> EmptyObject, local |-> EmptyObject]

NoTabs == [requested |-> FALSE, created |-> <<>>, location |-> <<>>]

\* f with the value v at k, and f without k
With(f, k, v) == [x \in DOMAIN f \cup {k} |-> IF x = k THEN v ELSE f[x]]

Remove(f, k) == [x \in DOMAIN f \ {k} |-> f[x]]

\* showNotification at the reading `now` of the clock; grokipediaUrl is <<>>
\* when the caller gave none; fails names the chrome call that rejects
showNotification(w, now, grokipediaUrl, fails) ==
  IF fails = "create" THEN [worker |-> w, rejected |-> TRUE]
  ELSE LET created == [w EXCEPT !.shown = With(w.shown, now, [url |-> grokipediaUrl])]
       IN IF grokipediaUrl = <<>> THEN [worker |-> created, rejected |-> FALSE]
          ELSE IF fails = "set" THEN [worker |-> created, rejected |-> TRUE]
          ELSE [worker |-> [created EXCEPT !.local = With(w.local, now, grokipediaUrl)],
                rejected |-> FALSE]

\* the url the click handlers read for a notification: undefined is <<>>
StoredUrl(w, notificationId) ==
  IF notificationId \in DOMAIN w.local THEN w.local[notificationId] ELSE <<>>

\* faulty variant of onButtonClicked: the button that was clicked not looked at
onButtonClicked_AnyButton(w, t, notificationId, buttonIndex, fails) ==
  LET target == StoredUrl(w, notificationId)
      after == IF target # <<>> THEN [t EXCEPT !.created = Append(t.created, target)]
               ELSE t
  IN IF fails = "get" THEN [worker |-> w, tab |-> t, rejected |-> TRUE]
     ELSE IF target # <<>> /\ fails = "create"
     THEN [worker |-> w, tab |-> t, rejected |-> TRUE]
     ELSE IF fails = "remove" THEN [worker |-> w, tab |-> after, rejected |-> TRUE]
     ELSE [worker |-> [w EXCEPT !.local = Remove(w.local, notificationId),
                                !.shown = Remove(w.shown, notificationId)],
           tab |-> after, rejected |-> FALSE]

\* the chrome.notifications.onButtonClicked listener: for the first button the
\* url is read and, when there is one, a tab is created; then the entry is
\* removed and the notification cleared; fails names the chrome call that rejects
onButtonClicked(w, t, notificationId, buttonIndex, fails) ==
  LET opens == buttonIndex = 0
      target == StoredUrl(w, notificationId)
      creates == opens /\ target # <<>>
      after == IF creates THEN [t EXCEPT !.created = Append(t.created, target)] ELSE t
  IN IF opens /\ fails = "get" THEN [worker |-> w, tab |-> t, rejected |-> TRUE]
     ELSE IF creates /\ fails = "create" THEN [worker |-> w, tab |-> t, rejected |-> TRUE]
     ELSE IF fails = "remove" THEN [worker |-> w, tab |-> after, rejected |-> TRUE]
     ELSE [worker |-> [w EXCEPT !.local = Remove(w.local, notificationId),
                                !.shown = Remove(w.shown, notificationId)],
           tab |-> after, rejected |-> FALSE]

\* the chrome.notifications.onClicked listener does what onButtonClicked does
\* for the first button
onClicked(w, t, notificationId, fails) == onButtonClicked(w, t, notificationId, 0, fails)

\* what the content script, the popup and the options page send, and a
\* message of a type declared in MessageType that handleMessage has no case for
Messages ==
  {[type |-> "GET_SETTINGS"]}
  \cup {[type |-> "UPDATE_SETTINGS", settings |-> settings] :
          settings \in {[autoRedirect |-> TRUE], [enabled |-> FALSE],
                       [redirectDelay |-> 60000]}}
  \cup {[type |-> "SHOW_NOTIFICATION", title |-> <<"W","i","k","i","T","o","G","r","o","k">>, message |-> <<"V","i","e","w">>, url |-> u] :
          u \in GrokipediaUrls \cup {<<>>}}
  \cup {[type |-> "REDIRECT_TAB", tabId |-> 1, url |-> <<"h","t","t","p","s",":","/","/","g","r","o","k","i","p","e","d","i","a",".","c","o","m","/","p","a","g","e","/","B","e","r","l","i","n">>],
        [type |-> "REDIRECT_TO_GROKIPEDIA", url |-> <<"h","t","t","p","s",":","/","/","g","r","o","k","i","p","e","d","i","a",".","c","o","m","/","p","a","g","e","/","B","e","r","l","i","n">>]}

\* the chrome call of a handler that rejects, for the calls the handler of the
\* message makes: storage get, storage set, notifications.create, tabs.update
MessageFailures(message) ==
  {"none"}
  \cup (IF message.type \in {"GET_SETTINGS", "UPDATE_SETTINGS"} THEN {"get"} ELSE {})
  \cup (IF message.type = "UPDATE_SETTINGS" THEN {"set"} ELSE {})
  \cup (IF message.type = "SHOW_NOTIFICATION" THEN {"create"} ELSE {})
  \cup (IF message.type = "SHOW_NOTIFICATION" /\ message.url # <<>> THEN {"set"} ELSE {})
  \cup (IF message.type = "REDIRECT_TAB" THEN {"update"} ELSE {})

\* and for the calls of a click listener: storage get, tabs.create, storage remove
ClickFailures == {"none", "get", "create", "remove"}

UnknownMessageType == [success |-> FALSE, error |-> <<"U","n","k","n","o","w","n"," ","m","e","s","s","a","g","e"," ","t","y","p","e">>]

\* handleMessage: whether its promise rejects, what it resolves to, and what
\* it has done by then
handleMessage(message, area, w, t, now, fails) ==
  LET quiet == [rejected |-> FALSE, response |-> [success |-> TRUE], writes |-> FALSE,
                updated |-> EmptyObject, worker |-> w, tab |-> t]
  IN IF message.type = "GET_SETTINGS"
     THEN [quiet EXCEPT !.response = [success |-> TRUE,
                                      settings |-> getSettings(area, fails = "get")]]
     ELSE IF message.type = "UPDATE_SETTINGS"
     THEN IF fails = "set" THEN [quiet EXCEPT !.rejected = TRUE]
          ELSE [quiet EXCEPT !.writes = TRUE,
                             !.updated = saveSettings(area, message.settings,
                                                      fails = "get").updated]
     ELSE IF message.type = "SHOW_NOTIFICATION"
     THEN LET shown == showNotification(w, now, message.url, fails)
          IN [quiet EXCEPT !.rejected = shown.rejected, !.worker = shown.worker]
     ELSE IF message.type = "REDIRECT_TAB"
     THEN IF fails = "update" THEN [quiet EXCEPT !.rejected = TRUE]
          ELSE [quiet EXCEPT !.tab = [t EXCEPT !.location = message.url]]
     ELSE [quiet EXCEPT !.response = UnknownMessageType]

\* the chrome.runtime.onMessage listener: handleMessage(message).then(sendResponse)
OnMessage ==
  \E message \in Messages, now \in 0..MaxNow :
   \E fails \in MessageFailures(message) :
    LET handled == handleMessage(message, sync, worker, tab, now, fails)
    IN /\ RoomForEvent
       /\ pc' = "handleMessage"
       /\ ret' = IF handled.rejected THEN "rejected" ELSE "resolved"
       /\ locals' = [message |-> message, fails |-> fails,
                     responded |-> ~handled.rejected,
                     response |-> IF handled.rejected THEN EmptyObject
                                  ELSE handled.response]
       /\ worker' = handled.worker
       /\ tab' = handled.tab
       /\ IF handled.writes /\ ~handled.rejected
          THEN Written(handled.updated)
          ELSE UNCHANGED <<sync, pending>>
       /\ UNCHANGED <<src, url, calls, EXCLUDED_NAMESPACES, args>>
       /\ UNCHANGED page

\* showNotification called by handleMessage for a SHOW_NOTIFICATION message
ShowNotification ==
  \E grokipediaUrl \in GrokipediaUrls \cup {<<>>}, now \in 0..MaxNow,
     fails \in {"none", "create", "set"} :
    LET shown == showNotification(worker, now, grokipediaUrl, fails)
    IN /\ pc' = "showNotification"
       /\ ret' = IF shown.rejected THEN "rejected" ELSE "resolved"
       /\ locals' = [notificationId |-> now]
       /\ worker' = shown.worker
       /\ UNCHANGED <<src, url, calls, EXCLUDED_NAMESPACES, args>>
       /\ UNCHANGED <<sync, pending, page, tab>>

\* the handlers' step: the listener has run for the click described by click
Clicked(name, click, outcome) ==
  /\ Len(tab.created) < MaxTabs
  /\ pc' = name
  /\ ret' = IF outcome.rejected THEN "rejected" ELSE "resolved"
  /\ locals' = click
  /\ worker' = outcome.worker
  /\ tab' = outcome.tab
  /\ UNCHANGED <<src, url, calls, EXCLUDED_NAMESPACES, args>>
  /\ UNCHANGED <<sync, pending, page>>

\* the user clicks a button of a notification that has buttons
NotificationButtonClicked ==
  \E notificationId \in DOMAIN worker.shown, buttonIndex \in {0, 1}, fails \in ClickFailures :
    /\ worker.shown[notificationId].url # <<>>
    /\ Clicked("onButtonClicked",
               [notificationId |-> notificationId, buttonIndex |-> buttonIndex],
               onButtonClicked(worker, tab, notificationId, buttonIndex, fails))

\* the user clicks the body of a notification
NotificationClicked ==
  \E notificationId \in DOMAIN worker.shown, fails \in ClickFailures :
    Clicked("onClicked", [notificationId |-> notificationId],
            onClicked(worker, tab, notificationId, fails))

InitWorker ==
  /\ sync \in {EmptyObject, [userSettings |-> [autoRedirect |-> TRUE]]}
  /\ pending = NoEvents
  /\ locals = NoLocals
  /\ page = NoPage
  /\ worker = WorkerIdle
  /\ tab = NoTabs
  /\ src = NoSource
  /\ url = <<>>
  /\ pc = "idle"
  /\ ret = NoValue
  /\ calls = <<>>
  /\ EXCLUDED_NAMESPACES = NamespaceLiteral
  /\ args = NoArgs

NextWorker == OnMessage

SpecWorker == InitWorker /\ [][NextWorker]_vars

InitNotifications ==
  /\ sync = EmptyObject
  /\ pending = NoEvents
  /\ locals = NoLocals
  /\ page = NoPage
  /\ worker = WorkerIdle
  /\ tab = NoTabs
  /\ src = NoSource
  /\ url = <<>>
  /\ pc = "idle"
  /\ ret = NoValue
  /\ calls = <<>>
  /\ EXCLUDED_NAMESPACES = NamespaceLiteral
  /\ args = NoArgs

NextNotifications ==
  \/ ShowNotification
  \/ NotificationButtonClicked
  \/ NotificationClicked

SpecNotifications == InitNotifications /\ [][NextNotifications]_vars

----------------------------------------------------------------------------
(* The popup: its two toggles                                              *)

\* the popup before DOMContentLoaded; it registers no storage listener
NoPopup == [open |-> FALSE, loaded |-> FALSE]

\* updateSettings of the popup: UPDATE_SETTINGS is sent and handleMessage
\* saves; a failure is logged and nothing is thrown
updateSettings(area, settings, readFails, fails) ==
  IF fails THEN area
  ELSE SyncSet(area, saveSettings(area, settings, readFails).updated)

\* initialize of the popup: the two toggles are set from the settings the
\* service worker answers with, DEFAULT_SETTINGS standing in when that fails
PopupInitialize ==
  \E messageFails \in BOOLEAN, readFails \in BOOLEAN :
    LET settings == ContentGetSettings(sync, messageFails, readFails)
    IN /\ page' = [open |-> FALSE, loaded |-> TRUE,
                   enabledToggle |-> settings.enabled,
                   autoRedirectToggle |-> settings.autoRedirect,
                   autoRedirectDisabled |-> ~settings.enabled]
       /\ pc' = "initialize"
       /\ ret' = NoValue
       /\ locals' = NoLocals
       /\ UNCHANGED <<src, url, calls, EXCLUDED_NAMESPACES, args>>
       /\ UNCHANGED <<sync, pending, worker, tab>>

\* the user flips enabledToggle, and its change handler runs: fails names
\* the updateSettings call of the handler that fails
EnabledToggleChange ==
  \E readFails \in BOOLEAN, fails \in {"none", "first", "second"} :
    LET enabled == ~page.enabledToggle
        first == updateSettings(sync, [enabled |-> enabled], readFails, fails = "first")
        alsoOff == ~enabled /\ page.autoRedirectToggle
        second == IF alsoOff
                  THEN updateSettings(first, [autoRedirect |-> FALSE], readFails,
                                      fails = "second")
                  ELSE first
    IN /\ page.loaded
       /\ fails = "second" => alsoOff
       /\ page' = [page EXCEPT !.enabledToggle = enabled,
                               !.autoRedirectDisabled = ~enabled,
                               !.autoRedirectToggle = IF alsoOff THEN FALSE ELSE @]
       /\ sync' = second
       /\ pc' = "enabledToggle"
       /\ ret' = NoValue
       /\ locals' = [enabled |-> enabled, readFails |-> readFails, fails |-> fails]
       /\ UNCHANGED <<src, url, calls, EXCLUDED_NAMESPACES, args>>
       /\ UNCHANGED <<pending, worker, tab>>

\* the user flips autoRedirectToggle, which is possible while it is not disabled
AutoRedirectToggleChange ==
  \E readFails \in BOOLEAN, fails \in BOOLEAN :
    LET autoRedirect == ~page.autoRedirectToggle
    IN /\ page.loaded
       /\ ~page.autoRedirectDisabled
       /\ page' = [page EXCEPT !.autoRedirectToggle = autoRedirect]
       /\ sync' = updateSettings(sync, [autoRedirect |-> autoRedirect], readFails, fails)
       /\ pc' = "autoRedirectToggle"
       /\ ret' = NoValue
       /\ locals' = [autoRedirect |-> autoRedirect, readFails |-> readFails,
                     fails |-> IF fails THEN "first" ELSE "none"]
       /\ UNCHANGED <<src, url, calls, EXCLUDED_NAMESPACES, args>>
       /\ UNCHANGED <<pending, worker, tab>>

InitPopup ==
  /\ sync \in StartAreas
  /\ pending = NoEvents
  /\ locals = NoLocals
  /\ page = NoPopup
  /\ worker = WorkerStopped
  /\ tab = NoTab
  /\ src = NoSource
  /\ url = <<>>
  /\ pc = "idle"
  /\ ret = NoValue
  /\ calls = <<>>
  /\ EXCLUDED_NAMESPACES = NamespaceLiteral
  /\ args = NoArgs

\* UpdateSettings: the options page, open in a tab, saves while the popup is shown
NextPopup ==
  \/ PopupInitialize
  \/ EnabledToggleChange
  \/ AutoRedirectToggleChange
  \/ UpdateSettings

SpecPopup == InitPopup /\ [][NextPopup]_vars

----------------------------------------------------------------------------
(* Properties of the URL core                                              *)

\* what the parser made of the input
Parsed == ParseURL(url)
\* the parsed path with the first Len("/wiki/") code points removed
ParsedRemainder == Drop(Parsed.pathname, Len(WikiMarker))

\* the input is written as https://en.wikipedia.org/wiki/ followed by src.rem
EnWikiSource ==
  /\ src.scheme = Https /\ src.userinfo = <<>> /\ src.host = En
  /\ src.port = <<>> /\ src.prefix = WikiMarker

\* the code points of the modelled alphabet that the path state copies unchanged
PathSafe == LowerSet \cup UpperSet \cup DigitSet \cup {"_", "%", ":", ".", "/", "-"}

\* text that the parser's path state leaves as it is: only PathSafe code points
\* and no dot segment
IsNormalizedPathText(t) ==
  /\ \A i \in 1..Len(t) : t[i] \in PathSafe
  /\ LET segs == Split(t, {"/"})
     IN \A i \in 1..Len(segs) : ~IsSingleDot(segs[i]) /\ ~IsDoubleDot(segs[i])

\* C1: isArticlePage(url) is true exactly when url parses, the parsed hostname
\* ends with ".wikipedia.org", the path starts with "/wiki/" and the rest of
\* the path starts with none of the 26 excluded prefixes; in particular it is
\* true for an empty rest and for the rest "Main_Page".
C1_IsArticlePageContract ==
  pc = "isArticlePage" =>
    LET onWiki == /\ ~Parsed.failure
                  /\ EndsWith(Parsed.hostname, WikipediaSuffix)
                  /\ StartsWith(Parsed.pathname, WikiMarker)
    IN /\ Cardinality(Namespaces) = 26
       /\ ret = (onWiki /\ \A p \in Namespaces : ~StartsWith(ParsedRemainder, p))
       /\ (onWiki /\ ParsedRemainder \in {<<>>, <<"M","a","i","n","_","P","a","g","e">>}) => ret = TRUE

C1_Witness ==
  /\ pc = "isArticlePage"
  /\ ret = TRUE
  /\ StartsWith(Parsed.pathname, WikiMarker)
  /\ ParsedRemainder = <<"M","a","i","n","_","P","a","g","e">>

\* the ".." segments of the written remainder never remove its first segment:
\* depth is the number of segments the path holds from the first one on
RECURSIVE KeepsSegment(_, _)
KeepsSegment(segs, depth) ==
  IF segs = <<>> THEN TRUE
  ELSE IF IsDoubleDot(Head(segs))
       THEN depth > 1 /\ KeepsSegment(Tail(segs), depth - 1)
  ELSE IF IsSingleDot(Head(segs)) THEN KeepsSegment(Tail(segs), depth)
  ELSE KeepsSegment(Tail(segs), depth + 1)

KeepsFirstSegment(t) ==
  KeepsSegment(Tail(Split(RemoveTabNewline(t), {"/", "\\"})), 1)

WrittenWithNamespace == \E p \in Namespaces : StartsWith(src.rem, p)

\* C2 as stated: for every excluded prefix p and every suffix s,
\* isArticlePage("https://en.wikipedia.org/wiki/" + p + s) is false.
C2_AnySuffix ==
  (pc = "isArticlePage" /\ EnWikiSource /\ WrittenWithNamespace) => ret = FALSE

\* C2 as amended: for every excluded prefix p and every suffix s in which no
\* ".." segment climbs above the path segment that starts with p,
\* isArticlePage("https://en.wikipedia.org/wiki/" + p + s) is false.
C2_ExcludedNamespaces ==
  (pc = "isArticlePage" /\ EnWikiSource /\ WrittenWithNamespace
     /\ KeepsFirstSegment(src.rem)) => ret = FALSE

C2_Witness ==
  /\ pc = "isArticlePage" /\ EnWikiSource /\ WrittenWithNamespace
  /\ \E i \in 1..Len(src.rem) - 1 : SubSeq(src.rem, i, i + 1) = <<".",".">>
  /\ KeepsFirstSegment(src.rem)
  /\ ret = FALSE

\* the input has no host under wikipedia.org: it does not parse, or the host
\* the parser finds does not end with ".wikipedia.org"
NotWikipediaHost == Parsed.failure \/ ~EndsWith(Parsed.hostname, WikipediaSuffix)

\* C3: for every input whose host is not a subdomain of wikipedia.org,
\* isArticlePage returns false and transformToGrokipedia fails with
\* "Not a Wikipedia article page".
C3_ForeignHostRejected ==
  /\ (pc = "isArticlePage" /\ NotWikipediaHost) => ret = FALSE
  /\ (pc = "transformToGrokipedia" /\ NotWikipediaHost) =>
        ret = [success |-> FALSE, error |-> "Not a Wikipedia article page"]

C3_Witness ==
  /\ pc = "transformToGrokipedia"
  /\ ~Parsed.failure
  /\ ~EndsWith(Parsed.hostname, WikipediaSuffix)
  /\ IndexOf(Parsed.hostname, WikipediaSuffix) > 0
  /\ StartsWith(Parsed.pathname, WikiMarker)
  /\ ret.success = FALSE

\* C4: transformToGrokipedia checks in a fixed order and stops at the first
\* failure: not an article page, then no language, then no article name, each
\* with its own reason and without calling the later helpers; an article page
\* whose hostname does not match the language pattern fails with the language
\* reason whatever its article name.
C4_CheckOrder ==
  pc = "transformToGrokipedia" =>
    LET article == isArticlePage(url)
        noLang == extractLanguage(url).isNull
        noName == extractArticleName(url).isNull
    IN /\ ~article =>
            /\ ret = [success |-> FALSE, error |-> "Not a Wikipedia article page"]
            /\ calls = <<"isArticlePage">>
       /\ (article /\ noLang) =>
            /\ ret = [success |-> FALSE, error |-> "Could not extract language from URL"]
            /\ calls = <<"isArticlePage", "extractLanguage">>
       /\ (article /\ ~noLang /\ noName) =>
            /\ ret = [success |-> FALSE,
                      error |-> "Could not extract article name from URL"]
            /\ calls = <<"isArticlePage", "extractLanguage", "extractArticleName">>
       /\ (article /\ ~noLang /\ ~noName) => ret.success = TRUE

C4_Witness ==
  /\ pc = "transformToGrokipedia"
  /\ isArticlePage(url)
  /\ extractLanguage(url).isNull
  /\ extractArticleName(url).isNull
  /\ ret.error = "Could not extract language from URL"

\* C5: every result of transformToGrokipedia has one of two shapes: success
\* with grokipediaUrl, articleName and language and no error, where
\* grokipediaUrl = "https://grokipedia.com/page/" + articleName and the other
\* two are what extractArticleName and extractLanguage return; or failure with
\* error and none of the other three.
C5_ResultShapes ==
  pc = "transformToGrokipedia" =>
    \/ /\ ret.success = TRUE
       /\ DOMAIN ret = {"success", "grokipediaUrl", "articleName", "language"}
       /\ ret.grokipediaUrl = <<"h","t","t","p","s",":","/","/","g","r","o","k","i","p","e","d","i","a",".","c","o","m","/","p","a","g","e","/">> \o ret.articleName
       /\ ret.articleName # <<>> /\ ret.language # <<>>
       /\ extractArticleName(url) = [isNull |-> FALSE, value |-> ret.articleName]
       /\ extractLanguage(url) = [isNull |-> FALSE, value |-> ret.language]
    \/ /\ ret.success = FALSE
       /\ DOMAIN ret = {"success", "error"}
       /\ ret.error \in {"Not a Wikipedia article page",
                         "Could not extract language from URL",
                         "Could not extract article name from URL"}

C5_Witness ==
  /\ pc = "transformToGrokipedia"
  /\ ret.success = TRUE
  /\ ret.language = <<"d","e">>

\* the input is written with a scheme, and src.host is all of its host as written
WrittenWithScheme ==
  /\ src.scheme \in Schemes \ {<<>>, <<"/","/">>}
  /\ (src.prefix # <<>> \/ src.rem = <<>>)

WithoutQueryAndFragment == Serialize([src EXCEPT !.query = <<>>, !.frag = <<>>])

C8_BareWikiPath ==
  (~Parsed.failure /\ Parsed.pathname = WikiMarker /\ ~extractLanguage(url).isNull) =>
    /\ pc = "isArticlePage" => ret = TRUE
    /\ pc = "extractArticleName" => ret = [isNull |-> TRUE, value |-> <<>>]
    /\ pc = "transformToGrokipedia" =>
         /\ ret = [success |-> FALSE, error |-> "Could not extract article name from URL"]
         /\ calls = <<"isArticlePage", "extractLanguage", "extractArticleName">>

C8_Witness ==
  /\ pc = "transformToGrokipedia"
  /\ EnWikiSource /\ src.rem = <<>>
  /\ ret.error = "Could not extract article name from URL"

\* h is one label of 2 to 3 lowercase ASCII letters, or "simple", directly
\* followed by ".wikipedia.org"
IsLanguageHost(h) ==
  \/ h = <<"s","i","m","p","l","e",".","w","i","k","i","p","e","d","i","a",".","o","r","g">>
  \/ \E n \in 2..3 :
       /\ Len(h) = n + 14
       /\ \A i \in 1..n : h[i] \in LowerSet
       /\ SubSeq(h, n + 1, Len(h)) = <<".","w","i","k","i","p","e","d","i","a",".","o","r","g">>

LabelOf(h) == SubSeq(h, 1, FirstIn(h, {"."}) - 1)

C10_CaseSensitivePrefix ==
  /\ EXCLUDED_NAMESPACES = NamespaceLiteral
  /\ (pc = "isArticlePage" /\ EnWikiSource /\ IsNormalizedPathText(src.rem)) =>
       /\ ret = ~WrittenWithNamespace
       /\ (\E p \in Namespaces : /\ StartsWith(ToLower(src.rem), ToLower(p))
                                 /\ ~StartsWith(src.rem, p)
                                 /\ ~WrittenWithNamespace) => ret = TRUE
       /\ (\E p \in Namespaces : IndexOf(src.rem, p) > 1 /\ ~WrittenWithNamespace)
            => ret = TRUE

C10_Witness ==
  /\ pc = "isArticlePage"
  /\ EnWikiSource
  /\ src.rem = <<"t","a","l","k",":","X">>
  /\ ret = TRUE

----------------------------------------------------------------------------
(* Properties of the helpers                                               *)

\* the string decodeURIComponent makes of the argument, when it makes one
Decoded == decodeURIComponent(args.articleName)

\* no escape of the name is cut short or holds a digit that is not hexadecimal
EveryEscapeWritten(s) == \A k \in 1..Len(s) : s[k] = "%" => IsEscape(s, k)

C12_IsLanguageEnabled ==
  pc = "isLanguageEnabled" =>
    LET list == args.enabledLanguages
        occurs == \E i \in 1..Len(list) :
                    /\ Len(list[i]) = Len(args.language)
                    /\ \A k \in 1..Len(args.language) : list[i][k] = args.language[k]
    IN /\ list = <<>> => ret = TRUE
       /\ list # <<>> => ret = occurs

C12_Witness ==
  /\ pc = "isLanguageEnabled"
  /\ ret = FALSE
  /\ \E i \in 1..Len(args.enabledLanguages) :
       ToLower(args.enabledLanguages[i]) = ToLower(args.language)

----------------------------------------------------------------------------
(* Totality of the URL core                                                *)

\* a value of type string | null
IsNullableString(v) ==
  /\ DOMAIN v = {"isNull", "value"}
  /\ v.isNull \in BOOLEAN
  /\ v.value \in Seq(STRING)
  /\ v.isNull => v.value = <<>>

\* a value of type TransformResult
IsTransformResult(v) ==
  \/ /\ DOMAIN v = {"success", "error"}
     /\ v.success = FALSE
     /\ v.error \in STRING
  \/ /\ DOMAIN v = {"success", "grokipediaUrl", "articleName", "language"}
     /\ v.success = TRUE
     /\ v.grokipediaUrl \in Seq(STRING)
     /\ v.articleName \in Seq(STRING)
     /\ v.language \in Seq(STRING)

\* C13: the URL core is total.  On every input string, the empty string and
\* the strings that do not parse as a URL included, isArticlePage returns a
\* boolean (false when the parse fails), extractLanguage and extractArticleName
\* return a string or null (null when the parse fails), transformToGrokipedia
\* returns a result value; nothing is raised to the caller.
C13_TotalCore ==
  /\ pc = "isArticlePage" =>
       /\ ret \in BOOLEAN
       /\ Parsed.failure => ret = FALSE
  /\ pc \in {"extractLanguage", "extractArticleName"} =>
       /\ IsNullableString(ret)
       /\ Parsed.failure => ret = Null
  /\ pc = "transformToGrokipedia" =>
       /\ IsTransformResult(ret)
       /\ Parsed.failure => ~ret.success

C13_Witness ==
  /\ pc = "extractLanguage"
  /\ url = <<>>
  /\ Parsed.failure
  /\ ret = Null

----------------------------------------------------------------------------
(* Properties of the settings store                                        *)

\* what the three functions return on an input of PureSources, told from the
\* pieces the input is written from and from nothing else
OnWikipedia(s) == s.host \in {En, <<"s","i","m","p","l","e",".","w","i","k","i","p","e","d","i","a",".","o","r","g">>}
ExpectedArticlePage(s) == OnWikipedia(s) /\ s.rem # <<"T","a","l","k",":","B","e","r","l","i","n">>
ExpectedLanguage(s) ==
  IF OnWikipedia(s)
  THEN Str(SubSeq(s.host, 1, Len(s.host) - Len(WikipediaSuffix)))
  ELSE Null
ExpectedResult(s) ==
  IF ~ExpectedArticlePage(s) THEN Failed("Not a Wikipedia article page")
  ELSE IF s.rem = <<>> THEN Failed("Could not extract article name from URL")
  ELSE Succeeded(GROKIPEDIA_BASE_URL \o <<"/","p","a","g","e","/">> \o s.rem, s.rem,
                 ExpectedLanguage(s).value)

\* C14: isArticlePage, extractLanguage and transformToGrokipedia are
\* deterministic and independent of the stored settings and of earlier calls:
\* what each of them returns is one fixed function of the URL string, the same
\* in every state of the settings store and after every sequence of calls and
\* settings writes.
C14_ResultFromUrlAlone ==
  /\ pc = "isArticlePage" => ret = ExpectedArticlePage(src)
  /\ pc = "extractLanguage" => ret = ExpectedLanguage(src)
  /\ pc = "transformToGrokipedia" => ret = ExpectedResult(src)

C14_Witness ==
  /\ pc = "isArticlePage"
  /\ ret = TRUE
  /\ STORAGE_KEY \in DOMAIN sync
  /\ ~getSettings(sync, FALSE).enabled
  /\ getSettings(sync, FALSE).autoRedirect

\* the stored settings object
Stored == sync[STORAGE_KEY]

\* C19: getSettings always resolves to a complete settings record with all
\* five fields: each field holds the stored value when one is stored and the
\* DEFAULT_SETTINGS value otherwise; with nothing stored, or when the storage
\* read fails, it resolves to DEFAULT_SETTINGS; it never rejects.
C19_GetSettingsComplete ==
  pc = "getSettings" =>
    /\ DOMAIN ret = SettingsFields
    /\ Cardinality(SettingsFields) = 5
    /\ \A f \in SettingsFields :
         ret[f] = (IF /\ ~locals.readFails
                      /\ STORAGE_KEY \in DOMAIN sync
                      /\ f \in DOMAIN Stored
                   THEN Stored[f]
                   ELSE DEFAULT_SETTINGS[f])
    /\ (locals.readFails \/ STORAGE_KEY \notin DOMAIN sync) => ret = DEFAULT_SETTINGS

C19_Witness ==
  /\ pc = "getSettings"
  /\ ~locals.readFails
  /\ STORAGE_KEY \in DOMAIN sync
  /\ DOMAIN Stored # SettingsFields
  /\ \E f \in DOMAIN Stored : ret[f] # DEFAULT_SETTINGS[f]

----------------------------------------------------------------------------
(* The functions of storage.ts that read, change and save one setting      *)

\* the step in which the function `name` runs
StepOf(name) == pc' = name /\ (pc # name \/ locals' # locals \/ sync' # sync)

\* the settings before and after the step, as getSettings reads them
Before == getSettings(sync, FALSE)
After == getSettings(sync', FALSE)

Occurrences(list, entry) == Cardinality({i \in DOMAIN list : list[i] = entry})

NoDuplicate(list) == \A i, j \in DOMAIN list : list[i] = list[j] => i = j

\* C22: when resetSettings has completed the store holds DEFAULT_SETTINGS and
\* getSettings returns exactly DEFAULT_SETTINGS, whatever ran before
C22_ResetRestoresDefaults ==
  (pc = "resetSettings" /\ ret = "resolved") =>
    /\ Stored = DEFAULT_SETTINGS
    /\ \A readFails \in BOOLEAN : getSettings(sync, readFails) = DEFAULT_SETTINGS

C22_Witness ==
  /\ pc = "resetSettings"
  /\ ret = "resolved"
  /\ STORAGE_KEY \in DOMAIN sync

\* the toggleSetting step that has saved, and the key it was called with
Toggled == StepOf("toggleSetting") /\ locals'.wrote

ToggledAgain ==
  /\ Toggled
  /\ pc = "toggleSetting"
  /\ locals.wrote
  /\ locals.argument = locals'.argument

LanguageStep ==
  \/ StepOf("addLanguage")
  \/ StepOf("removeLanguage")
  \/ StepOf("enableAllLanguages")

Added == StepOf("addLanguage") /\ ret' = "resolved"

Removed == StepOf("removeLanguage") /\ locals'.wrote

C26_EnableAll ==
  (pc = "enableAllLanguages" /\ locals.wrote) =>
    /\ Stored.enabledLanguages = <<>>
    /\ \A language \in Languages \cup {<<"d","e">>, <<"z","h">>} :
         isLanguageEnabled(language, getSettings(sync, FALSE).enabledLanguages)

C26_Witness ==
  /\ pc = "enableAllLanguages"
  /\ locals.wrote
  /\ ret = "resolved"

----------------------------------------------------------------------------
(* saveSettings whose write fails, and the callbacks of onSettingsChange   *)

\* C21: when the write of saveSettings fails the call rejects with the
\* storage error, the store is as it was, and no change event is queued for
\* the registered callback
C21_FailedWriteLeavesStore ==
  [][(StepOf("saveSettings") /\ locals'.writeFails) =>
       /\ ret' = StorageError
       /\ sync' = sync
       /\ pending' = pending]_vars

C21_Witness ==
  /\ pc = "saveSettings"
  /\ locals.writeFails
  /\ ret = StorageError
  /\ worker.listening
  /\ STORAGE_KEY \in DOMAIN sync
  /\ locals.updated # Stored
  /\ pending.worker = <<>>

\* the step in which the registered listener receives an event
Delivered ==
  /\ pc' = "listener"
  /\ pending.worker # <<>>
  /\ pending'.worker = Tail(pending.worker)

\* value merged over DEFAULT_SETTINGS, field by field
MergedOverDefaults(change, property) ==
  [f \in SettingsFields |->
     IF property \in DOMAIN change /\ f \in DOMAIN change[property]
     THEN change[property][f] ELSE DEFAULT_SETTINGS[f]]

\* C27: every change of the settings item of the sync area made while the
\* callback is registered is queued for it once; on delivery the callback is
\* invoked, once, exactly when the event is of area 'sync' and has the
\* 'userSettings' key, with the new and the old value merged over
\* DEFAULT_SETTINGS; once unsubscribed nothing is delivered
C27_CallbackPerSettingsChange ==
  [][/\ (worker.listening /\ worker'.listening /\ sync' # sync) =>
          pending'.worker = Append(pending.worker, Change(sync, sync'))
     /\ Delivered =>
          LET event == Head(pending.worker)
              call == locals'.callback
          IN /\ worker.listening
             /\ call.invoked <=>
                  (event.areaName = "sync" /\ STORAGE_KEY \in DOMAIN event.changes)
             /\ call.invoked =>
                  /\ call.newSettings =
                       MergedOverDefaults(event.changes[STORAGE_KEY], "newValue")
                  /\ call.oldSettings =
                       MergedOverDefaults(event.changes[STORAGE_KEY], "oldValue")
     /\ ~worker'.listening => pending'.worker = <<>>]_vars

C27_Witness ==
  /\ pc = "listener"
  /\ locals.callback.invoked
  /\ "oldValue" \in DOMAIN locals.event.changes[STORAGE_KEY]
  /\ locals.callback.newSettings.autoRedirect
  /\ ~locals.callback.oldSettings.autoRedirect
  /\ DOMAIN locals.event.changes[STORAGE_KEY].oldValue # SettingsFields
  /\ locals.callback.newSettings = Stored

----------------------------------------------------------------------------
(* Two calls of storage.ts made together                                   *)

BothDone == \A i \in Racers : locals.running[i].phase = "done"

Racing(first, second) ==
  /\ locals.running[1].name = first
  /\ locals.running[2].name = second

\* the fields call i asked saveSettings to save are stored with its values
TookEffect(i) ==
  LET save == locals.running[i].plan.save
  IN \A f \in DOMAIN save : Stored[f] = save[f]

\* C28: two saveSettings calls that write disjoint sets of fields, their reads
\* and writes interleaved in any order: when both have completed the stored
\* settings have the values written by both
C28_ConcurrentSavesBothStored ==
  (Racing("saveSettings", "saveSettings") /\ BothDone) =>
    (TookEffect(1) /\ TookEffect(2))

\* C29: addLanguage(a) and addLanguage(b), a # b, interleaved in any order:
\* when both have completed the stored list contains a and b; toggleSetting on
\* one key and saveSettings on another key: when both have completed the key
\* has the toggled value and the other fields the saved values
C29_ConcurrentEditsBothStored ==
  /\ (Racing("addLanguage", "addLanguage") /\ BothDone) =>
       \A i \in Racers :
         Includes(Stored.enabledLanguages, locals.running[i].argument.language)
  /\ (Racing("toggleSetting", "saveSettings") /\ BothDone) =>
       /\ Stored[locals.running[1].argument.key] = locals.running[1].plan.newValue
       /\ TookEffect(2)

----------------------------------------------------------------------------
(* What the stored list means once a language has been removed             *)

\* C31: when removeLanguage(l) has completed, its storage reads having
\* succeeded, l is not enabled by the stored list: isLanguageEnabled(l, list)
\* is false
C31_RemovedLanguageDisabled ==
  (/\ pc = "removeLanguage"
   /\ locals.wrote
   /\ ~locals.readFails
   /\ ~locals.saveReadFails) =>
    ~isLanguageEnabled(locals.argument, Stored.enabledLanguages)

\* C32: when handleLanguageChange has saved, every supported language is
\* enabled by the stored list exactly if its checkbox is checked
C32_CheckboxesMatchStoredList ==
  (pc = "handleLanguageChange" /\ ret = "saved") =>
    \A code \in SupportedCodes :
      isLanguageEnabled(code, Stored.enabledLanguages) <=> code \in page.checked

\* the step in which the change handler of the popup's enabledToggle runs
EnabledToggled ==
  /\ page.loaded
  /\ pc' = "enabledToggle"
  /\ page'.enabledToggle # page.enabledToggle

\* C36: when the change handler of the popup's enabledToggle has completed
\* for a switch to disabled, its updateSettings calls and their storage reads
\* having succeeded, the stored settings have enabled = false and
\* autoRedirect = false
C36_DisablingTurnsOffAutoRedirect ==
  [][(/\ EnabledToggled
      /\ ~locals'.enabled
      /\ locals'.fails = "none"
      /\ ~locals'.readFails) => (~After.enabled /\ ~After.autoRedirect)]_vars

----------------------------------------------------------------------------
(* The answers of the service worker, and the clicks on its notifications  *)

\* C34: every message the service worker has handled has got a response
\* { success: true, ... } or { success: false, error }, the message of an
\* unknown type { success: false, error: 'Unknown message type' }, and the
\* message whose handler met a failing chrome call as well
C34_EveryMessageAnswered ==
  pc = "handleMessage" =>
    /\ locals.responded
    /\ "success" \in DOMAIN locals.response
    /\ ~locals.response.success => "error" \in DOMAIN locals.response
    /\ locals.message.type \notin {"GET_SETTINGS", "UPDATE_SETTINGS",
                                   "SHOW_NOTIFICATION", "REDIRECT_TAB"}
         => locals.response = UnknownMessageType

\* the step in which a click listener runs for the notification it names
ClickHandled == pc' \in {"onClicked", "onButtonClicked"}

\* the click was on the body or on the first button, 'Open Grokipedia'
OpensGrokipedia == pc' = "onButtonClicked" => locals'.buttonIndex = 0

\* the URL showNotification was called with for the notification clicked
NotificationUrl == worker.shown[locals'.notificationId].url

\* what C35 says of one handled click
ClickOutcome ==
  /\ OpensGrokipedia => tab'.created = Append(tab.created, NotificationUrl)
  /\ ~OpensGrokipedia => tab'.created = tab.created
  /\ locals'.notificationId \notin DOMAIN worker'.shown
  /\ locals'.notificationId \notin DOMAIN worker'.local

C38_StoredDelayInRange ==
  (STORAGE_KEY \in DOMAIN sync /\ "redirectDelay" \in DOMAIN Stored) =>
    Stored.redirectDelay \in 0..5000

----------------------------------------------------------------------------
(* The content script                                                      *)

\* the step in which initialize runs
PageLoads == ~page.initialized /\ page'.initialized

PageResult == transformToGrokipedia(page.href).result

Navigates ==
  \/ ~page'.open /\ page'.location # page.location /\ page'.timers = page.timers
  \/ page'.open /\ Len(page'.timers) > Len(page.timers)

NavigatesTo(target) ==
  \/ ~page'.open /\ page'.location = target /\ page'.timers = page.timers
  \/ page'.open /\ page'.timers = Append(page.timers, target)

Notifies == page'.notifications # page.notifications

ShowsBanner == page'.banner # page.banner

OutcomeCount ==
  Cardinality({o \in {"navigate", "notify", "banner"} :
                 \/ o = "navigate" /\ Navigates
                 \/ o = "notify" /\ Notifies
                 \/ o = "banner" /\ ShowsBanner})

\* the cases in which the page load does nothing
StaysQuiet(settings) ==
  \/ ~isArticlePage(page.href)
  \/ ~PageResult.success
  \/ ~settings.enabled
  \/ ~isLanguageEnabled(PageResult.language, settings.enabledLanguages)

\* C15: on page load the content script does at most one of navigating,
\* requesting a notification and showing the banner; nothing when the URL is not
\* an article page, the transform fails, the extension is disabled or the
\* language is not enabled; otherwise it navigates to the Grokipedia URL when
\* autoRedirect is set, else notifies when useNotifications is set, else shows
\* the banner; the default settings on an English article give the banner and
\* no navigation
C15_PageLoadOutcome ==
  [][PageLoads =>
       LET settings == page'.settings
       IN /\ OutcomeCount <= 1
          /\ StaysQuiet(settings) => OutcomeCount = 0
          /\ ~StaysQuiet(settings) =>
               /\ OutcomeCount = 1
               /\ IF settings.autoRedirect THEN NavigatesTo(PageResult.grokipediaUrl)
                  ELSE IF settings.useNotifications
                       THEN /\ Len(page'.notifications) = 1
                            /\ page'.notifications[1].url = PageResult.grokipediaUrl
                       ELSE /\ Cardinality(page'.banner) = 1
                            /\ \A b \in page'.banner : b.url = PageResult.grokipediaUrl
          /\ (settings = DEFAULT_SETTINGS /\ ~StaysQuiet(settings)
                /\ PageResult.language = <<"e","n">>) => ShowsBanner /\ ~Navigates]_vars

C15_Witness ==
  /\ page.initialized
  /\ page.open
  /\ page.settings = DEFAULT_SETTINGS
  /\ page.href = <<"h","t","t","p","s",":","/","/","e","n",".","w","i","k","i","p","e","d","i","a",".","o","r","g","/","w","i","k","i","/","B","e","r","l","i","n">>
  /\ page.location = page.href
  /\ page.timers = <<>>
  /\ page.banner # {}

PageLanguage == extractLanguage(page.href)

\* the settings the handler that runs in this step decides with
SettingsUsed ==
  IF PageLoads THEN page'.settings
  ELSE Head(pending.content).changes.userSettings.newValue

\* C16: no handler of the content script navigates, at once or by a timer, a
\* page whose language is not enabled in the settings it decides with
C16_LanguageGuardsNavigation ==
  [][(page.open /\ Navigates) =>
       /\ ~PageLanguage.isNull
       /\ isLanguageEnabled(PageLanguage.value, SettingsUsed.enabledLanguages)]_vars

----------------------------------------------------------------------------
(* The dynamic redirect rules                                              *)

TabResult == transformToGrokipedia(tab.url).result

TabRemainder == extractArticleName(tab.url)

\* C17: a request the dynamic rules redirect is for a URL that
\* transformToGrokipedia transforms, the redirect goes to that result's
\* grokipediaUrl, and the path remainder of the URL starts with no prefix of
\* the url-transformer's EXCLUDED_NAMESPACES
C17_RulesRedirectArticlesOnly ==
  (tab.requested /\ tab.redirected) =>
    /\ TabResult.success
    /\ tab.location = TabResult.grokipediaUrl
    /\ ~TabRemainder.isNull
    /\ \A i \in DOMAIN EXCLUDED_NAMESPACES :
         ~StartsWith(TabRemainder.value, EXCLUDED_NAMESPACES[i])

TabLanguage == extractLanguage(tab.url)

\* the service worker has handled every change of the settings
WorkerUpToDate == worker.listening /\ pending.worker = <<>>

\* C18: once the service worker has handled every settings change, a request
\* is redirected by the dynamic rules only if the language of its URL is
\* enabled in the stored enabledLanguages
C18_RulesRespectLanguages ==
  [][(WorkerUpToDate /\ tab' # tab /\ tab'.redirected) =>
       /\ ~TabLanguage.isNull
       /\ isLanguageEnabled(TabLanguage.value,
                            getSettings(sync, FALSE).enabledLanguages)]_vars

\* the settings the store holds now, as getSettings reads them
CurrentSettings == getSettings(sync, FALSE)

\* C30: once the service worker's initialize has finished and no settings
\* change waits for its callback, with no storage read and no rule update
\* having failed, the managed rules are installed exactly when the stored
\* settings have enabled and autoRedirect set
C30_RulesFollowSettings ==
  (WorkerUpToDate /\ ~worker.failed) =>
    /\ (CurrentSettings.enabled /\ CurrentSettings.autoRedirect)
         => worker.rules = createRedirectRules
    /\ ~(CurrentSettings.enabled /\ CurrentSettings.autoRedirect)
         => worker.rules = {}

----------------------------------------------------------------------------
(* The page after the extension has been disabled                          *)

\* the step in which the page is left for another location, at once or by a
\* timer that fires
LeavesPage == page.open /\ ~page'.open /\ page'.location # page.location

\* C33: once the change to enabled = false has been delivered to the content
\* script (the store has enabled = false and no change waits for the page's
\* listener), the page navigates no more, a redirect that performRedirect
\* scheduled before the change included
C33_DisabledStopsNavigation ==
  [][(/\ page.open
      /\ STORAGE_KEY \in DOMAIN sync
      /\ ~getSettings(sync, FALSE).enabled
      /\ pending.content = <<>>) => ~(LeavesPage \/ Navigates)]_vars


\* a step of the content script: initialize, the storage listener or a timer
ContentScriptStep == page' # page

\* C39: a page-load decision only reads: initialize, with the getSettings,
\* transformToGrokipedia and isLanguageEnabled calls it makes, and every other
\* step of the content script leave the storage area as it is; 'userSettings'
\* is written only by a step in which a control sends UPDATE_SETTINGS
C39_PageLoadOnlyReads ==
  [][/\ (PageLoads \/ ContentScriptStep) => sync' = sync
     /\ sync' # sync => (page' = page /\ STORAGE_KEY \in DOMAIN sync')]_vars

\* the page was redirected with autoRedirect read from storage and the defaults
\* for the rest, and the stored object is still the partial one
C39_Witness ==
  /\ page.initialized
  /\ ~page.open
  /\ page.location # page.href
  /\ sync = [userSettings |-> [autoRedirect |-> TRUE]]

----------------------------------------------------------------------------
(* The identifiers of the dynamic rules                                    *)

\* the step in which updateRedirectRules has run, and the settings it was given
RulesUpdated ==
  \/ worker.starting /\ worker'.listening
  \/ /\ worker.listening
     /\ pending.worker # <<>>
     /\ pending'.worker = Tail(pending.worker)
     /\ listener(Head(pending.worker)).invoked

UpdatedWith ==
  IF worker.starting THEN worker.settings
  ELSE listener(Head(pending.worker)).newSettings

\* the rules of createRedirectRules have pairwise distinct identifiers, which
\* are those of getAllRuleIds: 1 for the redirect rule, 2..20 for the allow rules
RuleIds ==
  /\ \A r1, r2 \in createRedirectRules : r1.id = r2.id => r1 = r2
  /\ {r.id : r \in createRedirectRules} = getAllRuleIds
  /\ getAllRuleIds \subseteq 1..20
  /\ \A r \in createRedirectRules :
       /\ r.type = "redirect" <=> r.id = 1
       /\ r.type = "allow" <=> r.id \in 2..20

\* the rules with an identifier in 1..20 that a rule update leaves installed
\* are rules it has built itself: none after a switch to disabled
OldRulesRemoved ==
  {r \in worker'.rules : r.id \in 1..20}
    \subseteq IF UpdatedWith.enabled /\ UpdatedWith.autoRedirect
              THEN createRedirectRules ELSE {}

====
